---- MODULE Spec2Model ----
(***************************************************************************)
(* A model of the Passerd protocol engine (an IRC gateway to Twitter):     *)
(* the error throttler and the continuously-updating feeds of              *)
(* passerd/feeds.py, the rate-limited scheduler of passerd/scheduler.py    *)
(* and the session's channel join/leave/tear-down of passerd/ircd.py.      *)
(*                                                                         *)
(* Python's None is modelled by the integer None (-1) where the value is   *)
(* otherwise a number, and by the empty sequence where it is a string.     *)
(* A scheduler handle (RefreshUpdater) is identified with the feed whose   *)
(* refresh() it calls: a feed holds at most one handle at a time.          *)
(***************************************************************************)
EXTENDS Integers, Sequences, FiniteSets, TLC

\* ------------------------------------------------------------------------
\* Program constants
\* ------------------------------------------------------------------------
None == -1

MAX_SAME_ERROR == 1
MAX_DIFF_ERROR == 4
SAME_ERROR_MSG == "I got the same error again. I will shut up and just tell you when things are back to normal"
LOTS_ERRORS_MSG == "I am getting too many errors. I will shut up and just tell you when things are back to normal"
BACK_WORKING == "Good! Things seem to be working again"

\* ------------------------------------------------------------------------
\* Bounds of the model
\* ------------------------------------------------------------------------
\* errors fed to one throttler between two ok() events
MaxErrCount == 6

\* ------------------------------------------------------------------------
\* Error objects and their string form.  The integer 123 and the string
\* "123" are different objects with the same str() (tests/errors.py:140).
\* ------------------------------------------------------------------------
ErrorObjects == {"ouch", "d'oh", "s:123", "i:123"}

str(e) == IF e \in {"s:123", "i:123"} THEN "123" ELSE e

\* ------------------------------------------------------------------------
\* ErrorThrottler (feeds.py).  Each operation returns the new throttler
\* state t and the sequence out of the calls it made to the wrapped
\* function _real_fn.
\* ------------------------------------------------------------------------
ErrorThrottler == [last_err |-> <<>>, same_err_count |-> 0,
                   any_err_count |-> 0, stopped |-> FALSE]

Forwarded(e) == [kind |-> "error", msg |-> e]
ThrottlerStopMessage(m) == [kind |-> "ThrottlerStopMessage", msg |-> m]
BackWorkingMessage(m) == [kind |-> "BackWorkingMessage", msg |-> m]

_stop(t, msg) ==
    [t |-> [t EXCEPT !.stopped = TRUE], out |-> <<ThrottlerStopMessage(msg)>>]

\* mutants of error(): no same-error cap; caps tested in the other order
error_nosame(t0, e) ==
    LET msg == str(e)
        t == [t0 EXCEPT !.any_err_count = @ + 1,
                        !.same_err_count = IF <<msg>> = t0.last_err THEN @ + 1 ELSE 1,
                        !.last_err = <<msg>>]
    IN  IF t.stopped THEN [t |-> t, out |-> <<>>]
        ELSE IF t.any_err_count > MAX_DIFF_ERROR THEN _stop(t, LOTS_ERRORS_MSG)
        ELSE [t |-> t, out |-> <<Forwarded(e)>>]

error_swapped(t0, e) ==
    LET msg == str(e)
        t == [t0 EXCEPT !.any_err_count = @ + 1,
                        !.same_err_count = IF <<msg>> = t0.last_err THEN @ + 1 ELSE 1,
                        !.last_err = <<msg>>]
    IN  IF t.stopped THEN [t |-> t, out |-> <<>>]
        ELSE IF t.any_err_count > MAX_DIFF_ERROR THEN _stop(t, LOTS_ERRORS_MSG)
        ELSE IF t.same_err_count > MAX_SAME_ERROR THEN _stop(t, SAME_ERROR_MSG)
        ELSE [t |-> t, out |-> <<Forwarded(e)>>]

error(t0, e) ==
    LET msg == str(e)
        t == [t0 EXCEPT !.any_err_count = @ + 1,
                        !.same_err_count = IF <<msg>> = t0.last_err THEN @ + 1 ELSE 1,
                        !.last_err = <<msg>>]
    IN  IF t.stopped THEN [t |-> t, out |-> <<>>]
        ELSE IF t.same_err_count > MAX_SAME_ERROR THEN _stop(t, SAME_ERROR_MSG)
        ELSE IF t.any_err_count > MAX_DIFF_ERROR THEN _stop(t, LOTS_ERRORS_MSG)
        ELSE [t |-> t, out |-> <<Forwarded(e)>>]

\* mutant of ok(): the recovery notice is sent whether or not the throttler
\* was stopped
ok_always(t) ==
    [t |-> [t EXCEPT !.same_err_count = 0, !.any_err_count = 0, !.stopped = FALSE],
     out |-> <<BackWorkingMessage(BACK_WORKING)>>]

ok(t) ==
    [t |-> [t EXCEPT !.same_err_count = 0, !.any_err_count = 0, !.stopped = FALSE],
     out |-> IF t.stopped THEN <<BackWorkingMessage(BACK_WORKING)>> ELSE <<>>]


\* ------------------------------------------------------------------------
\* More program constants and bounds
\* ------------------------------------------------------------------------
MAX_REQS_PER_HOUR == 80
REFRESH_DELAY == 3600 \div MAX_REQS_PER_HOUR
QUERY_COUNT == 100

\* highest entry id the remote timeline of a feed grows to
MaxId == 3
\* forced refreshes (`!`, `!!`) typed by the user in one run
MaxForced == 1
\* consecutive failed refreshes of one feed
MaxFeedErrors == 1
\* names in one JOIN command
MaxTargets == 2

\* ------------------------------------------------------------------------
\* Feeds and channels of one session (ircd.py: connectionMade, create_channel)
\* ------------------------------------------------------------------------
Feeds == {"dm", "home", "mentions", "bob"}
Channels == {"#twitter", "#mentions", "#@bob", "#new-user-setup"}
autojoin_channels == <<"#twitter", "#mentions">>

\* TwitterChannel._createFeeds of each channel class; UserSetupChannel is a
\* plain IrcChannel and has no feed
_createFeeds(c) ==
    CASE c = "#twitter" -> <<"home">>
      [] c = "#mentions" -> <<"mentions">>
      [] c = "#@bob" -> <<"bob">>
      [] OTHER -> <<>>

IsTwitterChannel(c) == c # "#new-user-setup"

\* numerics (twisted.words.protocols.irc, ircd.py:114)
RPL_WELCOME == "001"
RPL_YOURHOST == "002"
RPL_CREATED == "003"
RPL_MYINFO == "004"
ERR_PASSWDMISMATCH == "464"
ERR_NEEDREGGEDNICK == "477"

\* ------------------------------------------------------------------------
\* Sequence helpers (Python list operations)
\* ------------------------------------------------------------------------
Range(s) == {s[i] : i \in 1..Len(s)}

\* list.remove(x): drops the first occurrence
RECURSIVE remove(_, _)
remove(s, x) ==
    IF s = <<>> THEN <<>>
    ELSE IF Head(s) = x THEN Tail(s)
    ELSE <<Head(s)>> \o remove(Tail(s), x)

RemoveAt(s, i) == SubSeq(s, 1, i - 1) \o SubSeq(s, i + 1, Len(s))

\* Twitter accounts, and the screen names they can carry
TwitterIds == {1, 2}

ScreenNames == {"al", "alice", "bob"}

RECURSIVE Flatten(_)
Flatten(ss) == IF ss = <<>> THEN <<>> ELSE Head(ss) \o Flatten(Tail(ss))

MaxOf(S) == IF S = {} THEN None ELSE CHOOSE m \in S : \A x \in S : x <= m
MinOf(S) == CHOOSE m \in S : \A x \in S : m <= x


\* ------------------------------------------------------------------------
\* State
\* ------------------------------------------------------------------------
VARIABLES
    \* ApiScheduler and its RefreshUpdater handles (scheduler.py)
    updaters,          \* handles registered: the feeds whose handle is in self.updaters
    pending,           \* handle.pending, per handle
    pending_queue,     \* self.pending_queue
    next_call,         \* self.next_call: None, or the seconds left of the DelayedCall
    running,           \* self.running
    shots_available,   \* self.shots_available
    retired,           \* the scheduler the session replaced while handles were registered
    \* the reactor: seconds left of every pending DelayedCall to _run_next
    timers,
    \* TwitterFeed (feeds.py), per feed
    updater,           \* self.updater is not None
    loading,           \* self.loading
    _last_id,          \* self._last_id
    _error_handler,    \* self._error_handler: the feed's ErrorThrottler
    \* DataStore: the user variable under each feed's _last_id_var() key
    user_vars,
    \* the remote API: highest id of each timeline, and the requests in flight
    remote,
    inflight,
    \* PasserdProtocol (ircd.py)
    api,               \* self.api is not None
    scheduler,         \* self.scheduler is not None
    authenticated_user,\* self.authenticated_user is not None
    joined_channels,   \* self.joined_channels
    quit_sent,         \* self.quit_sent
    do_auth,           \* the _do_auth awaiting the remote's answer: stage, username
    users,             \* DataStore: the rows of table users, in primary-key order
    got_nick,          \* self.got_nick
    got_user,          \* self.got_user
    password,          \* self.password is not None
    nick,              \* self.the_user.nick
    lost,              \* transport.loseConnection() was called
    \* TwitterUserCache (ircd.py): table twitter_users and the subscribers
    twitter_users,     \* per Twitter id, the row's content: <<>> when no row
    callbacks,         \* number of TwitterIrcUserCache objects subscribed
    _watched_ids,      \* per subscriber, its _watched_ids
    backfill,          \* fetch_all_friend_info: reqs, unknown_users, a page awaited
    \* TwitterChannel (ircd.py), the channel #twitter
    recent_posts,      \* self.recent_posts
    recent_by_user,    \* self.recent_by_user, [] for an absent key
    user_cfg,          \* the user's config variables as user_cfg_var_b reads them
    now,               \* time.time()
    updating,          \* the api.update requests awaiting the remote's answer: who made each
    \* the stand-alone throttler of tests/errors.py
    t,
    \* the stand-alone dialogs of tests/dialogs.py
    patterns,          \* a Dialog's self.patterns
    cmd_dialog,        \* a CommandDialog: its class, commands, attributes, cmd_prefix
    log_msgs,          \* what the last handler passed to the dialog's message_func
    \* what the last handler did
    emitted,           \* calls made to a throttler's wrapped function
    exc,               \* the exception it raised, "" when none
    exc_args,          \* an ErrorReply's command and arguments
    called,            \* the handles whose callable the scheduler called, in order
    sent,              \* the messages it wrote to the client, in order
    skipped,           \* the feeds whose refresh() returned at "Still loading"
    trace,             \* its calls of entry_cb.callback and update_last_id, in order
    posted,            \* its calls of api.update: status text and params
    reactions,         \* what the completion of a refresh did, in order, or Unrecorded
    \* history
    delivered,         \* per feed, the batches of entry ids passed to entry_cb
    forced,            \* forced refreshes typed so far
    invoked,           \* per handle, calls by the scheduler since the last tick
    n_at_tick,         \* handles registered at the last tick
    since_tick,        \* seconds since the last tick
    intervened,        \* stop() or wait_rate_limit() ran since the last tick
    ticks,             \* a tick has happened
    received,          \* the entries the channel cached, in order
    registered,        \* the wait_for calls made on the Dialog, in order
    setup,             \* NewUserDialog: its OAuth consumers, token probes in flight,
                       \* password and twitter_user
    \* history of the stand-alone throttler's event stream
    prev,              \* string form of the last error since the last ok(), <<>> if none
    run_len,           \* length of the run of identical errors the stream ends with
    run_fwd,           \* how many errors of that run were forwarded
    errs_since_ok,     \* errors since the last ok()
    fwd_since_ok,      \* errors forwarded since the last ok()
    shadow             \* a fresh throttler fed the errors since the last ok()

sched_vars == <<updaters, pending, pending_queue, next_call, running, shots_available,
               timers, retired>>
feed_vars == <<updater, loading, _last_id, _error_handler, user_vars, remote, inflight>>
proto_vars == <<api, scheduler, authenticated_user, joined_channels, quit_sent, do_auth, users>>
reg_vars == <<got_nick, got_user, password, nick, lost>>
cache_vars == <<twitter_users, callbacks, _watched_ids, backfill>>
chan_vars == <<recent_posts, recent_by_user, user_cfg, now, updating, received>>
hist_vars == <<delivered, forced, invoked, n_at_tick, since_tick, intervened, ticks>>
throttler_vars == <<t, prev, run_len, run_fwd, errs_since_ok, fwd_since_ok, shadow>>
dialog_vars == <<patterns, cmd_dialog, log_msgs, registered, setup>>
vars == <<sched_vars, feed_vars, proto_vars, reg_vars, hist_vars, throttler_vars,
          cache_vars, chan_vars, dialog_vars, posted, reactions,
          emitted, exc, exc_args, called, sent, skipped, trace>>

\* The session's state as one record, so that a handler and the calls it
\* makes compose as functions from state to state.
\* no attempt in flight; token is the token _do_auth.got_user probes
NoAuth == [stage |-> "", username |-> "", token |-> None]

\* no scheduler was replaced: a stopped ApiScheduler without handles
NoRetired == [updaters |-> {}, pending_queue |-> <<>>, shots_available |-> 0]

\* no pass over the friend list was started
NoBackfill == [reqs |-> <<>>, unknown_users |-> {}, waiting |-> FALSE]

\* a NewUserDialog that has talked to nobody
NoSetup == [consumers |-> <<>>, probes |-> 0, password |-> <<>>, twitter_user |-> <<>>]

auth_inflight == do_auth.stage # ""

\* the value of reactions where the order of a completion is not followed
Unrecorded == <<"unrecorded">>

World ==
    [updaters |-> updaters, pending |-> pending, pending_queue |-> pending_queue,
     next_call |-> next_call, running |-> running, shots_available |-> shots_available,
     retired |-> retired,
     timers |-> timers,
     updater |-> updater, loading |-> loading, _last_id |-> _last_id,
     _error_handler |-> _error_handler, user_vars |-> user_vars,
     remote |-> remote, inflight |-> inflight,
     api |-> api, scheduler |-> scheduler, authenticated_user |-> authenticated_user,
     joined_channels |-> joined_channels, quit_sent |-> quit_sent,
     do_auth |-> do_auth, users |-> users, ret |-> 0,
     got_nick |-> got_nick, got_user |-> got_user, password |-> password,
     nick |-> nick, lost |-> lost,
     twitter_users |-> twitter_users, callbacks |-> callbacks,
     _watched_ids |-> _watched_ids, backfill |-> backfill,
     recent_posts |-> recent_posts, recent_by_user |-> recent_by_user,
     user_cfg |-> user_cfg, now |-> now, updating |-> updating,
     received |-> received, posted |-> <<>>,
     reactions |-> IF reactions = Unrecorded THEN Unrecorded ELSE <<>>,
     emitted |-> <<>>, exc |-> "", exc_args |-> <<>>, called |-> <<>>,
     sent |-> <<>>, skipped |-> <<>>, trace |-> <<>>,
     delivered |-> delivered, forced |-> forced,
     invoked |-> invoked, n_at_tick |-> n_at_tick, since_tick |-> since_tick,
     intervened |-> intervened, ticks |-> ticks]

Becomes(w) ==
    /\ updaters' = w.updaters /\ pending' = w.pending
    /\ pending_queue' = w.pending_queue /\ next_call' = w.next_call
    /\ running' = w.running /\ shots_available' = w.shots_available
    /\ retired' = w.retired
    /\ timers' = w.timers
    /\ updater' = w.updater /\ loading' = w.loading /\ _last_id' = w._last_id
    /\ _error_handler' = w._error_handler /\ user_vars' = w.user_vars
    /\ remote' = w.remote /\ inflight' = w.inflight
    /\ api' = w.api /\ scheduler' = w.scheduler
    /\ authenticated_user' = w.authenticated_user
    /\ joined_channels' = w.joined_channels /\ quit_sent' = w.quit_sent
    /\ do_auth' = w.do_auth /\ users' = w.users
    /\ got_nick' = w.got_nick /\ got_user' = w.got_user /\ password' = w.password
    /\ nick' = w.nick /\ lost' = w.lost
    /\ twitter_users' = w.twitter_users /\ callbacks' = w.callbacks
    /\ _watched_ids' = w._watched_ids /\ backfill' = w.backfill
    /\ recent_posts' = w.recent_posts /\ recent_by_user' = w.recent_by_user
    /\ user_cfg' = w.user_cfg /\ now' = w.now /\ updating' = w.updating
    /\ received' = w.received /\ posted' = w.posted /\ reactions' = w.reactions
    /\ emitted' = w.emitted /\ exc' = w.exc /\ exc_args' = w.exc_args
    /\ called' = w.called
    /\ sent' = w.sent /\ skipped' = w.skipped /\ trace' = w.trace
    /\ delivered' = w.delivered /\ forced' = w.forced
    /\ invoked' = w.invoked /\ n_at_tick' = w.n_at_tick
    /\ since_tick' = w.since_tick /\ intervened' = w.intervened /\ ticks' = w.ticks
    /\ UNCHANGED <<throttler_vars, dialog_vars>>

\* the record of what a completion did gains an element, where one is kept
Note(w, what) ==
    IF w.reactions = Unrecorded THEN w ELSE [w EXCEPT !.reactions = Append(@, what)]

\* ------------------------------------------------------------------------
\* TwitterFeed._refresh, request side (feeds.py:161-173): the request carries
\* since_id only when last_id is truthy; last_id None means the watermark,
\* read through the last_id property, which caches the user variable.
\* ------------------------------------------------------------------------
last_id(w, f) == IF w._last_id[f] = None THEN w.user_vars[f] ELSE w._last_id[f]

Truthy(id) == id # None /\ id # 0

Request(f, kind, since) == [feed |-> f, kind |-> kind, since_id |-> since]

RequestsOf(w, f) == {i \in 1..Len(w.inflight) : w.inflight[i].feed = f}

_refresh(w, f, last, kind) ==
    LET w1 == IF last = None THEN [w EXCEPT !._last_id[f] = last_id(w, f)] ELSE w
        lid == IF last = None THEN last_id(w, f) ELSE last
        since == IF Truthy(lid) THEN lid ELSE None
    IN  [w1 EXCEPT !.inflight = Append(@, Request(f, kind, since))]

refresh_noguard(w, f) ==
    _refresh([w EXCEPT !.loading[f] = TRUE], f, None, "refresh")

\* TwitterFeed.refresh.doit (feeds.py:204-210)
refresh(w, f) ==
    IF w.loading[f] THEN [w EXCEPT !.skipped = Append(@, f)]
    ELSE _refresh([w EXCEPT !.loading[f] = TRUE], f, None, "refresh")

\* ------------------------------------------------------------------------
\* RefreshUpdater and ApiScheduler (scheduler.py)
\* ------------------------------------------------------------------------
\* RefreshUpdater.call: the handle's fn is its feed's refresh
call(w, u) ==
    refresh([w EXCEPT !.pending[u] = FALSE, !.invoked[u] = @ + 1,
                      !.called = Append(@, u)], u)

RECURSIVE _run_shots(_)
_run_shots(w) ==
    IF w.shots_available > 0 /\ w.pending_queue # <<>>
    THEN _run_shots(call([w EXCEPT !.shots_available = @ - 1,
                                   !.pending_queue = Tail(@)],
                         Head(w.pending_queue)))
    ELSE w

\* the same loop on the scheduler that was replaced: a handle keeps the
\* scheduler it was made by (RefreshUpdater.scheduler)
RECURSIVE retired_run_shots(_)
retired_run_shots(w) ==
    IF w.retired.shots_available > 0 /\ w.retired.pending_queue # <<>>
    THEN retired_run_shots(call([w EXCEPT !.retired.shots_available = @ - 1,
                                          !.retired.pending_queue = Tail(@)],
                                Head(w.retired.pending_queue)))
    ELSE w

_resched_updater(w, u) ==
    IF u \in w.retired.updaters
    THEN retired_run_shots([w EXCEPT !.retired.pending_queue = Append(@, u)])
    ELSE _run_shots([w EXCEPT !.pending_queue = Append(@, u)])

resched(w, u) ==
    IF w.pending[u] THEN w
    ELSE _resched_updater([w EXCEPT !.pending[u] = TRUE], u)

_unsched_updater(w, u) ==
    IF u \in w.retired.updaters
    THEN [w EXCEPT !.retired.pending_queue = remove(@, u)]
    ELSE [w EXCEPT !.pending_queue = remove(@, u)]

unsched(w, u) ==
    IF ~w.pending[u] THEN w
    ELSE _unsched_updater([w EXCEPT !.pending[u] = FALSE], u)

_remove_updater(w, u) ==
    IF u \in w.retired.updaters
    THEN [w EXCEPT !.retired.updaters = @ \ {u}]
    ELSE [w EXCEPT !.updaters = @ \ {u}]

\* mutant of destroy: the handle is not taken off the pending queue
destroy_nounsched(w, u) == _remove_updater(w, u)

destroy(w, u) == _remove_updater(unsched(w, u), u)

\* a new RefreshUpdater starts with pending = False; active defaults to True
new_updater(w, u) ==
    resched([w EXCEPT !.updaters = @ \cup {u}, !.pending[u] = FALSE], u)

_sched_next(w, delay) ==
    [w EXCEPT !.timers = Append(@, delay), !.next_call = delay]

\* next_call.active(): the DelayedCall is still with the reactor
_cancel_next(w) ==
    IF w.next_call = None THEN w
    ELSE [w EXCEPT !.timers = IF w.next_call \in Range(@) THEN remove(@, w.next_call) ELSE @,
                   !.next_call = None]

\* mutants of _run_next: shots accumulate over ticks; the delay ignores the
\* number of handles
_run_next_accumulate(w0) ==
    LET updater_count == Cardinality(w0.updaters)
        w == [w0 EXCEPT !.n_at_tick = updater_count, !.since_tick = 0,
                        !.intervened = FALSE, !.ticks = TRUE,
                        !.invoked = [f \in Feeds |-> 0]]
    IN  _sched_next(_run_shots([w EXCEPT !.shots_available = @ + updater_count]),
                    REFRESH_DELAY * updater_count)

_run_next_flatdelay(w0) ==
    LET updater_count == Cardinality(w0.updaters)
        w == [w0 EXCEPT !.n_at_tick = updater_count, !.since_tick = 0,
                        !.intervened = FALSE, !.ticks = TRUE,
                        !.invoked = [f \in Feeds |-> 0]]
    IN  _sched_next(_run_shots([w EXCEPT !.shots_available = updater_count]),
                    REFRESH_DELAY)

\* a tick
_run_next(w0) ==
    LET updater_count == Cardinality(w0.updaters)
        w == [w0 EXCEPT !.n_at_tick = updater_count, !.since_tick = 0,
                        !.intervened = FALSE, !.ticks = TRUE,
                        !.invoked = [f \in Feeds |-> 0]]
    IN  _sched_next(_run_shots([w EXCEPT !.shots_available = updater_count]),
                    REFRESH_DELAY * updater_count)

start(w) ==
    IF ~w.running THEN _run_next([w EXCEPT !.running = TRUE]) ELSE w

stop(w) ==
    _cancel_next([w EXCEPT !.running = FALSE, !.intervened = TRUE])

\* wait_rate_limit with the name time bound: the tick is moved to the reset
\* time when that is more than REFRESH_DELAY ahead
wait_rate_limit_time_bound(w, delay) ==
    IF delay > REFRESH_DELAY THEN _sched_next(_cancel_next(w), delay) ELSE w

\* wait_rate_limit (scheduler.py:144-154): its first statement reads
\* time.time(), and scheduler.py does not import time: the call raises
\* NameError before it cancels or schedules anything.
wait_rate_limit(w, delay) == [w EXCEPT !.exc = "NameError"]


\* ------------------------------------------------------------------------
\* TwitterFeed: completion of a request (feeds.py:176-226)
\* ------------------------------------------------------------------------
\* The remote honours since_id and count, and hands the entries to the
\* delegate newest first.
Response(w, req) ==
    LET hi == w.remote[req.feed]
        lo == IF req.since_id = None THEN 0 ELSE req.since_id
        all == IF hi > lo THEN hi - lo ELSE 0
        n == IF all > QUERY_COUNT THEN QUERY_COUNT ELSE all
    IN  [i \in 1..n |-> hi - i + 1]

\* _refresh.got_entry: entries.insert(0, e)
got_entry(entries, e) == <<e>> \o entries

RECURSIVE Collect(_, _)
Collect(resp, entries) ==
    IF resp = <<>> THEN entries
    ELSE Collect(Tail(resp), got_entry(entries, Head(resp)))

\* mutant of update_last_id: the watermark is kept in memory only
update_last_id_nopersist(w, f, id) ==
    [w EXCEPT !._last_id[f] = id,
              !.trace = Append(@, [op |-> "update_last_id", feed |-> f, id |-> id])]

update_last_id(w, f, id) ==
    [w EXCEPT !._last_id[f] = id, !.user_vars[f] = id,
              !.trace = Append(@, [op |-> "update_last_id", feed |-> f, id |-> id])]

\* entry_cb.callback(e)
entry_cb(w, f, e) ==
    Note([w EXCEPT !.trace = Append(@, [op |-> "entry_cb", feed |-> f, id |-> e])],
         "entry_cb.callback")

RECURSIVE dispatch_watermark_first(_, _, _)
dispatch_watermark_first(w, f, entries) ==
    IF entries = <<>> THEN w
    ELSE LET e == Head(entries)
             w1 == [w EXCEPT !._last_id[f] = last_id(w, f)]
             w2 == IF last_id(w1, f) = None \/ e > last_id(w1, f)
                   THEN update_last_id(w1, f, e) ELSE w1
         IN  dispatch_watermark_first(entry_cb(w2, f, e), f, Tail(entries))

\* the loop of _refresh.finished: every entry goes to the entry callbacks,
\* then the watermark moves if the entry is above it
RECURSIVE dispatch(_, _, _)
dispatch(w, f, entries) ==
    IF entries = <<>> THEN w
    ELSE LET e == Head(entries)
             w0 == entry_cb(w, f, e)
             w1 == [w0 EXCEPT !._last_id[f] = last_id(w0, f)]
             w2 == IF last_id(w1, f) = None \/ e > last_id(w1, f)
                   THEN update_last_id(w1, f, e) ELSE w1
         IN  dispatch(w2, f, Tail(entries))

finished(w, f, entries) ==
    LET r == ok(w._error_handler[f])
        w1 == [Note(w, "_error_handler.ok") EXCEPT
                        !._error_handler[f] = r.t,
                        !.emitted = @ \o r.out,
                        !.delivered[f] = IF entries = <<>> THEN @ ELSE Append(@, entries)]
    IN  dispatch(w1, f, entries)

refresh_resched(w, f) ==
    IF w.updater[f] THEN resched(Note(w, "updater.resched"), f) ELSE w

\* refresh.resched, the addBoth callback
refresh_done(w, f) ==
    refresh_resched(Note([w EXCEPT !.loading[f] = FALSE], "loading = False"), f)

\* refresh.error: raw error-backs (none is registered), then the throttler
refresh_error(w, f, e) ==
    LET w1 == Note(w, "raw_errbacks.callback")
        r == error(w1._error_handler[f], e)
    IN  Note([w1 EXCEPT !._error_handler[f] = r.t, !.emitted = @ \o r.out],
             "_error_handler.error")

stop_refreshing(w, f) ==
    IF w.updater[f] THEN [destroy(w, f) EXCEPT !.updater[f] = FALSE] ELSE w

\* self.scheduler is the session's: None raises AttributeError
start_refreshing(w, f) ==
    IF w.updater[f] THEN w
    ELSE IF ~w.scheduler THEN [w EXCEPT !.exc = "AttributeError"]
    ELSE refresh([new_updater(w, f) EXCEPT !.updater[f] = TRUE], f)

\* ------------------------------------------------------------------------
\* TwitterChannel and PasserdProtocol (ircd.py)
\* ------------------------------------------------------------------------
RECURSIVE StartFeeds(_, _)
StartFeeds(w, fs) ==
    IF fs = <<>> THEN w ELSE StartFeeds(start_refreshing(w, Head(fs)), Tail(fs))

RECURSIVE StopFeeds(_, _)
StopFeeds(w, fs) ==
    IF fs = <<>> THEN w ELSE StopFeeds(stop_refreshing(w, Head(fs)), Tail(fs))

\* TwitterChannel.start / stop
chan_start(w, c) == StartFeeds(w, _createFeeds(c))
chan_stop(w, c) == StopFeeds(w, _createFeeds(c))

\* join_channel, with the hooks of userJoined: beforeUserJoined refuses a
\* timeline channel to a session that is not authenticated
join_channel(w, c) ==
    IF c \in Range(w.joined_channels) THEN w
    ELSE IF IsTwitterChannel(c) /\ ~w.authenticated_user
         THEN [w EXCEPT !.exc = "ErrorReply", !.exc_args = <<ERR_NEEDREGGEDNICK, c>>]
    ELSE [chan_start(w, c) EXCEPT !.joined_channels = Append(@, c)]

\* leave_channel, with the hook of userLeft: beforeUserLeft stops the feeds
leave_channel(w, c) ==
    IF c \in Range(w.joined_channels)
    THEN [chan_stop(w, c) EXCEPT !.joined_channels = remove(@, c)]
    ELSE w

\* the constructor's state of a new ApiScheduler
ApiScheduler(w) ==
    [w EXCEPT !.updaters = {}, !.pending_queue = <<>>, !.next_call = None,
              !.running = FALSE, !.shots_available = 0]

\* the scheduler that is replaced stays with the handles made by it
retire(w) ==
    IF w.updaters = {} THEN w
    ELSE [w EXCEPT !.retired = [updaters |-> w.updaters,
                                pending_queue |-> w.pending_queue,
                                shots_available |-> w.shots_available]]

_set_scheduler(w, new) ==
    LET w1 == IF w.scheduler THEN [stop(w) EXCEPT !.scheduler = FALSE] ELSE w
    IN  IF new THEN [ApiScheduler(IF w.scheduler THEN retire(w1) ELSE w1)
                        EXCEPT !.scheduler = TRUE]
        ELSE w1

\* `for ch in self.joined_channels: self.leave_channel(ch, reason)`: the
\* list iterator goes by index over the list that leave_channel shrinks
RECURSIVE leave_all(_, _)
leave_all(w, i) ==
    IF i > Len(w.joined_channels) THEN w
    ELSE leave_all(leave_channel(w, w.joined_channels[i]), i + 1)

_userQuit(w) ==
    [_set_scheduler(leave_all(stop_refreshing(w, "dm"), 1), FALSE)
        EXCEPT !.quit_sent = TRUE]

userQuit(w) == IF ~w.quit_sent THEN _userQuit(w) ELSE w

RECURSIVE JoinAll(_, _)
JoinAll(w, cs) ==
    IF cs = <<>> THEN w ELSE JoinAll(join_channel(w, Head(cs)), Tail(cs))

welcome_user(w) ==
    start(start_refreshing(JoinAll(w, autojoin_channels), "dm"))

\* DataStore.new_user and DataStore.get_user (data.py:155-178); ret is the
\* row returned, 0 for None. filter_by(twitter_id=None) selects the rows
\* whose twitter_id is NULL; formatting None with %d raises TypeError before
\* the row is touched.
FirstUser(rows, field, value) ==
    LET S == {i \in 1..Len(rows) : rows[i][field] = value}
    IN  IF S = {} THEN 0 ELSE CHOOSE i \in S : \A j \in S : i <= j

new_user(w, twitter_id, screen_name) ==
    [w EXCEPT !.users = Append(@, [twitter_id |-> twitter_id,
                                   twitter_login |-> screen_name,
                                   oauth_token |-> None]),
              !.ret = Len(w.users) + 1]

get_user(w, twitter_id, screen_name, create) ==
    LET i == FirstUser(w.users, "twitter_id", twitter_id)
        j == FirstUser(w.users, "twitter_login", screen_name)
    IN  IF i # 0 THEN [w EXCEPT !.ret = i]
        ELSE IF j # 0
             THEN IF twitter_id = None THEN [w EXCEPT !.exc = "TypeError"]
                  ELSE [w EXCEPT !.users[j].twitter_id = twitter_id, !.ret = j]
        ELSE IF ~create THEN [w EXCEPT !.ret = 0]
        ELSE new_user(w, twitter_id, screen_name)

\* set_user_token (ircd.py:1825-1830): u is the user the remote names for
\* the access token; a token is written as the id of the account it was
\* issued for
set_user_token(w, twitter_id, screen_name) ==
    LET w1 == get_user(w, twitter_id, screen_name, TRUE)
    IN  [w1 EXCEPT !.users[w1.ret].oauth_token = twitter_id]

\* the remote matches the user name of basic auth in any case of the
\* letters; u.screen_name is the name as the account spells it
ScreenName(username) == IF username = "AL" THEN "al" ELSE username

\* the account Twitter authenticates a user name as
TwitterId(screen_name) == IF screen_name = "alice" THEN 1 ELSE 2

\* the screen name the account carries now: account 1, once "al", is
\* "alice", and "al" was taken by account 2
NameOf(twitter_id) == IF twitter_id = 1 THEN "alice" ELSE "al"

\* test_oauth_token.done: the client signed with the token probed, and the
\* user the remote names for that token, are handed to oauth_works
probed(w) ==
    Note([w EXCEPT !.do_auth = NoAuth],
         IF w.do_auth.token = TwitterId(w.do_auth.username)
         THEN "self.api: token of the verified account"
         ELSE "self.api: token of another account")

\* set_authenticated_user (ircd.py:1785-1787)
set_authenticated_user(w, twitter_id, screen_name) ==
    get_user([w EXCEPT !.authenticated_user = TRUE], twitter_id, screen_name, TRUE)

\* _do_auth.oauth_works: the API client, a new scheduler, the authenticated user
oauth_works(w, screen_name) ==
    set_authenticated_user(_set_scheduler([w EXCEPT !.api = TRUE], TRUE),
                           TwitterId(screen_name), screen_name)

\* send_reply, notice and send_notice: one message to the client each; a
\* reply and a notice are addressed to the_user.nick
send_reply(w, cmd, params) ==
    [w EXCEPT !.sent = Append(@, [cmd |-> cmd, to |-> w.nick, params |-> params])]

notice(w, msg) == send_reply(w, "NOTICE", <<msg>>)

_send_welcome_replies(w) ==
    send_reply(send_reply(send_reply(send_reply(w,
        RPL_WELCOME, <<w.nick>>), RPL_YOURHOST, <<>>), RPL_CREATED, <<>>), RPL_MYINFO, <<>>)

welcome_anonymous(w) ==
    notice(notice(notice(w, "Welcome, anonymous user!"),
                  "identify yourself"), "join #new-user-setup")

redirect_to_new_user_setup(w) ==
    join_channel(notice(w, "Please join #new-user-setup"), "#new-user-setup")

\* _early_auth.auth_ok
auth_ok(w) == welcome_user(_send_welcome_replies(w))

\* _early_auth.error
auth_error(w, e) ==
    IF e = "MissingOAuthRegistration"
    THEN redirect_to_new_user_setup(welcome_anonymous(_send_welcome_replies(
             notice(notice(w, "Error while authenticating"),
                    "Your connection will be considered anonymous"))))
    ELSE [send_reply(w, ERR_PASSWDMISMATCH, <<"Error while authenticating">>)
             EXCEPT !.lost = TRUE]

\* _do_auth.try_local_password: User has no method password_valid
try_local_password(w, username) ==
    LET w1 == get_user(w, None, username, FALSE)
    IN  IF w1.exc # "" \/ w1.ret = 0 THEN w1
        ELSE [w1 EXCEPT !.exc = "AttributeError"]

\* _do_auth.doit: when no local account answers, basic auth is asked of the
\* remote
_do_auth(w, username) ==
    LET w1 == try_local_password(w, username)
    IN  IF w1.exc # "" THEN w1
        ELSE [w1 EXCEPT !.do_auth = [stage |-> "basic", username |-> username, token |-> None]]

\* _do_auth.basic_auth_ok: no account or no token is no_oauth_setup,
\* otherwise got_user probes the token
basic_auth_ok(w) ==
    LET screen_name == ScreenName(w.do_auth.username)
        w1 == get_user([w EXCEPT !.do_auth = NoAuth], TwitterId(screen_name),
                       screen_name, FALSE)
    IN  IF w1.ret = 0 THEN auth_error(w1, "MissingOAuthRegistration")
        ELSE IF w1.users[w1.ret].oauth_token = None
             THEN auth_error(w1, "MissingOAuthRegistration")
        ELSE [w1 EXCEPT !.do_auth = [stage |-> "probe", username |-> screen_name,
                                     token |-> w1.users[w1.ret].oauth_token]]

\* _do_auth.oauth_error
oauth_error(w, status) ==
    IF status = "401" THEN auth_error(w, "MissingOAuthRegistration")
    ELSE auth_error(w, "twisted.web.error.Error")

\* _early_auth.doit
_early_auth(w) == _do_auth(w, w.nick)

try_early_auth_nonick(w) ==
    IF w.api THEN w
    ELSE IF w.password /\ w.got_user THEN _early_auth(w)
    ELSE w

try_early_auth(w) ==
    IF w.api THEN w
    ELSE IF w.password /\ w.got_user /\ w.got_nick THEN _early_auth(w)
    ELSE w

\* irc_NICK: a second NICK only renames (force_nick)
irc_NICK(w, n) ==
    IF w.got_nick THEN [w EXCEPT !.nick = n]
    ELSE try_early_auth([w EXCEPT !.nick = n, !.got_nick = TRUE])

irc_PASS(w) == try_early_auth([w EXCEPT !.password = TRUE])

irc_USER(w) ==
    LET w1 == [w EXCEPT !.got_user = TRUE]
    IN  IF w1.password THEN try_early_auth(w1)
        ELSE welcome_anonymous(_send_welcome_replies(w1))

\* irc_JOIN: join_cname for each name of the comma-separated list, in order;
\* an exception ends the loop
RECURSIVE irc_JOIN(_, _)
irc_JOIN(w, cnames) ==
    IF cnames = <<>> \/ w.exc # "" THEN w
    ELSE irc_JOIN(join_channel(w, Head(cnames)), Tail(cnames))

handleCommand_notice(w) ==
    IF w.exc = "" THEN w
    ELSE notice(w, "*** An internal error has occurred")

\* handleCommand.error: an ErrorReply becomes the numeric it names, any
\* other exception a notice
handleCommand(w) ==
    IF w.exc = "" THEN w
    ELSE IF w.exc = "ErrorReply" THEN send_reply(w, w.exc_args[1], Tail(w.exc_args))
    ELSE notice(w, "*** An internal error has occurred")

RECURSIVE ForceFeeds(_, _, _)
ForceFeeds(w, fs, last) ==
    IF fs = <<>> THEN w
    ELSE ForceFeeds(_refresh(w, Head(fs), last, "force"), Tail(fs), last)

\* forceRefresh: one _refresh per feed, whatever its loading flag; `!!`
\* passes last_id = 0, `!` passes None
forceRefresh(w, c, last) ==
    IF ~w.api THEN [w EXCEPT !.exc = "AttributeError"]
    ELSE ForceFeeds(w, _createFeeds(c), last)


\* ------------------------------------------------------------------------
\* Initial state: connectionMade (ircd.py:1377-1430), TwitterFeed.__init__,
\* ApiScheduler.__init__, ErrorThrottler.__init__, an account with no stored
\* watermark and empty remote timelines.
\* ------------------------------------------------------------------------
InitCommon ==
    /\ updaters = {} /\ pending = [f \in Feeds |-> FALSE]
    /\ pending_queue = <<>> /\ next_call = None
    /\ running = FALSE /\ shots_available = 0
    /\ timers = <<>> /\ retired = NoRetired
    /\ updater = [f \in Feeds |-> FALSE]
    /\ loading = [f \in Feeds |-> FALSE]
    /\ _last_id = [f \in Feeds |-> None]
    /\ _error_handler = [f \in Feeds |-> ErrorThrottler]
    /\ user_vars = [f \in Feeds |-> None]
    /\ remote = [f \in Feeds |-> 0]
    /\ inflight = <<>>
    /\ joined_channels = <<>> /\ quit_sent = FALSE /\ do_auth = NoAuth
    /\ twitter_users = [id \in TwitterIds |-> <<>>]
    /\ backfill = NoBackfill
    /\ recent_posts = <<>> /\ recent_by_user = [id \in TwitterIds |-> <<>>]
    /\ user_cfg = [careful |-> FALSE, rt_inline |-> FALSE, multiline |-> FALSE]
    /\ now = 0 /\ updating = <<>> /\ received = <<>> /\ posted = <<>>
    /\ t = ErrorThrottler
    /\ patterns = <<>> /\ registered = <<>> /\ log_msgs = <<>>
    /\ setup = NoSetup
    /\ emitted = <<>> /\ exc = "" /\ exc_args = <<>> /\ called = <<>>
    /\ sent = <<>> /\ skipped = <<>> /\ trace = <<>> /\ lost = FALSE
    /\ delivered = [f \in Feeds |-> <<>>]
    /\ forced = 0
    /\ invoked = [f \in Feeds |-> 0]
    /\ n_at_tick = 0 /\ since_tick = 0 /\ intervened = FALSE /\ ticks = FALSE
    /\ prev = <<>> /\ run_len = 0 /\ run_fwd = 0
    /\ errs_since_ok = 0 /\ fwd_since_ok = 0
    /\ shadow = ErrorThrottler

\* a row of table users (data.py:51-57); a row with a token holds the one
\* issued for the account the row was paired as
UserRow(twitter_id, twitter_login, oauth_token) ==
    [twitter_id |-> twitter_id, twitter_login |-> twitter_login,
     oauth_token |-> IF oauth_token THEN twitter_id ELSE None]

\* the account of Twitter user 1, paired when its screen name was "al"
PairedUsers == <<UserRow(1, "al", TRUE)>>

Unregistered ==
    /\ InitCommon
    /\ callbacks = 0 /\ _watched_ids = <<>> /\ cmd_dialog = None
    /\ reactions = Unrecorded
    /\ api = FALSE /\ scheduler = FALSE /\ authenticated_user = FALSE
    /\ got_nick = FALSE /\ got_user = FALSE /\ password = FALSE /\ nick = "guest"

Init ==
    /\ Unregistered
    /\ users = PairedUsers

\* The data stores a connection can find: empty; the account paired under
\* the user's current or former screen name; an account created without a
\* token; a row written before the twitter_id column existed.
InitialUsers ==
    {<<>>, <<UserRow(1, "alice", TRUE)>>, PairedUsers, <<UserRow(1, "al", FALSE)>>,
     <<UserRow(None, "alice", FALSE)>>}

InitReg ==
    /\ Unregistered
    /\ users \in InitialUsers

\* The scheduler and the feeds as components: the session at the point where
\* _do_auth.oauth_works has bound the API client, created the scheduler and
\* recorded the authenticated user, before any feed is started.
Authenticated ==
    /\ InitCommon
    /\ api = TRUE /\ scheduler = TRUE /\ authenticated_user = TRUE
    /\ got_nick = TRUE /\ got_user = TRUE /\ password = TRUE /\ nick = "alice"
    /\ users = PairedUsers

InitSched ==
    /\ Authenticated
    /\ callbacks = 0 /\ _watched_ids = <<>> /\ cmd_dialog = None
    /\ reactions = Unrecorded

\* ------------------------------------------------------------------------
\* Actions of the session
\* ------------------------------------------------------------------------
\* the client's commands are handled while the connection is up
Connected == ~quit_sent /\ ~lost

\* NICK <n>
Nick(n) ==
    /\ Connected
    /\ Becomes(handleCommand(irc_NICK(World, n)))

\* USER; one authentication attempt is in flight at a time
User ==
    /\ Connected /\ ~auth_inflight
    /\ Becomes(handleCommand(irc_USER(World)))

\* PASS; one authentication attempt is in flight at a time
Pass ==
    /\ Connected /\ ~auth_inflight
    /\ Becomes(handleCommand(irc_PASS(World)))

\* the remote accepts the basic-auth credentials
BasicAuthOk ==
    /\ do_auth.stage = "basic"
    /\ Becomes(basic_auth_ok(World))

\* the remote refuses them
BasicAuthFail ==
    /\ do_auth.stage = "basic"
    /\ Becomes(auth_error([World EXCEPT !.do_auth = NoAuth], "twisted.web.error.Error"))

\* the token probe of _do_auth succeeds
AuthOk ==
    /\ do_auth.stage = "probe"
    /\ Becomes(auth_ok(oauth_works(probed(World), NameOf(do_auth.token))))

\* the token probe fails with an HTTP status
ProbeFail(status) ==
    /\ do_auth.stage = "probe"
    /\ Becomes(oauth_error([World EXCEPT !.do_auth = NoAuth], status))

\* JOIN <c>
Join(c) ==
    /\ Connected
    /\ Becomes(handleCommand(irc_JOIN(World, <<c>>)))

\* JOIN <c1>,<c2>,...
JoinList(cnames) ==
    /\ Connected
    /\ Becomes(handleCommand(irc_JOIN(World, cnames)))

\* irc_PART
Part(c) ==
    /\ Connected /\ c \in Range(joined_channels)
    /\ Becomes(handleCommand(leave_channel(World, c)))

\* irc_QUIT, connectionLost
Quit ==
    /\ ~quit_sent
    /\ Becomes([userQuit(World) EXCEPT !.lost = TRUE])

\* PRIVMSG <channel> :! (last = None) or :!! (last = 0)
Force(c, last) ==
    /\ Connected /\ forced < MaxForced
    /\ IsTwitterChannel(c)
    /\ c \in Range(autojoin_channels) \cup Range(joined_channels)
    /\ Becomes(handleCommand(forceRefresh([World EXCEPT !.forced = @ + 1], c, last)))

\* somebody posts on the remote timeline of feed f
Post(f) ==
    /\ remote[f] < MaxId
    /\ Becomes([World EXCEPT !.remote[f] = @ + 1])

\* the request inflight[i] completes: got_entry for every entry, then
\* finished, then (for refresh()) done and resched
Succeed(i) ==
    /\ i \in 1..Len(inflight)
    /\ LET req == inflight[i]
           w1 == [World EXCEPT !.inflight = RemoveAt(@, i)]
           w2 == finished(w1, req.feed, Collect(Response(World, req), <<>>))
       IN  Becomes(IF req.kind = "refresh" THEN refresh_done(w2, req.feed) ELSE w2)

\* the request inflight[i] fails with error e: refresh() reports it and
\* reschedules; forceRefresh has no error-back
Fail(i, e) ==
    /\ i \in 1..Len(inflight)
    /\ LET req == inflight[i]
           w1 == [World EXCEPT !.inflight = RemoveAt(@, i)]
       IN  /\ req.kind = "refresh" =>
                  _error_handler[req.feed].any_err_count < MaxFeedErrors
           /\ Becomes(IF req.kind = "refresh"
                      THEN refresh_done(refresh_error(w1, req.feed, e), req.feed)
                      ELSE w1)

\* the reactor runs a due DelayedCall: _run_next
Tick ==
    \E i \in 1..Len(timers) :
        /\ timers[i] = 0
        /\ Becomes(_run_next([World EXCEPT !.timers = RemoveAt(@, i)]))

\* d seconds pass; the reactor lets no due call wait
Advance(d) ==
    /\ timers # <<>>
    /\ d <= MinOf(Range(timers))
    /\ Becomes([World EXCEPT
           !.timers = [i \in 1..Len(timers) |-> timers[i] - d],
           !.next_call = IF next_call \in Range(timers) THEN next_call - d ELSE next_call,
           !.since_tick = @ + d,
           !.emitted = emitted, !.exc = exc])

\* ------------------------------------------------------------------------
\* Actions on the scheduler and the feeds as components
\* ------------------------------------------------------------------------
StartRefreshing(f) == /\ ~updater[f] /\ Becomes(start_refreshing(World, f))
StopRefreshing(f) == /\ updater[f] /\ Becomes(stop_refreshing(World, f))
Start == /\ ~running /\ Becomes(start(World))
Stop == /\ running /\ Becomes(stop(World))
WaitRateLimit(d) == Becomes(wait_rate_limit(World, d))


\* ------------------------------------------------------------------------
\* The stand-alone throttler: a stream of error(e) / ok() events
\* ------------------------------------------------------------------------
NoOfErrors(out) == Cardinality({i \in 1..Len(out) : out[i].kind = "error"})

TError(e) ==
    /\ t.any_err_count < MaxErrCount
    /\ LET r == error(t, e)
       IN  /\ t' = r.t
           /\ emitted' = r.out
           /\ fwd_since_ok' = fwd_since_ok + NoOfErrors(r.out)
           /\ run_fwd' = (IF prev = <<str(e)>> THEN run_fwd ELSE 0) + NoOfErrors(r.out)
    /\ prev' = <<str(e)>>
    /\ run_len' = IF prev = <<str(e)>> THEN run_len + 1 ELSE 1
    /\ errs_since_ok' = errs_since_ok + 1
    /\ shadow' = error(shadow, e).t
    /\ UNCHANGED <<sched_vars, feed_vars, proto_vars, reg_vars, hist_vars,
                   cache_vars, chan_vars, dialog_vars, posted, reactions,
                   exc, exc_args, called, sent, skipped, trace>>

TOk ==
    /\ LET r == ok(t)
       IN  t' = r.t /\ emitted' = r.out
    /\ prev' = <<>> /\ run_len' = 0 /\ run_fwd' = 0
    /\ errs_since_ok' = 0 /\ fwd_since_ok' = 0
    /\ shadow' = ErrorThrottler
    /\ UNCHANGED <<sched_vars, feed_vars, proto_vars, reg_vars, hist_vars,
                   cache_vars, chan_vars, dialog_vars, posted, reactions,
                   exc, exc_args, called, sent, skipped, trace>>

\* ------------------------------------------------------------------------
\* Specifications
\* ------------------------------------------------------------------------
\* remote-reported seconds to the rate-limit reset
ResetDelays == {30, REFRESH_DELAY, REFRESH_DELAY + 1, 600}

SchedFeeds == {"dm", "home", "mentions"}

SessionChannels == {"#twitter", "#mentions", "#new-user-setup"}

\* the session: registration, channels, tear-down, with quiet timelines
Next ==
    \/ Nick("alice") \/ User \/ Pass
    \/ BasicAuthOk
    \/ AuthOk
    \/ \E c \in SessionChannels : Join(c)
    \/ \E c \in SessionChannels : Part(c)
    \/ Quit
    \/ \E i \in 1..Len(inflight) : Succeed(i)
    \/ Tick
    \/ Advance(REFRESH_DELAY)

Spec == Init /\ [][Next]_vars

\* registration: the commands in any order, every outcome of the
\* authentication attempt, JOIN with up to MaxTargets names, `!`
Nicks == {"alice", "bob"}

Statuses == {"401", "500"}

JoinLists == UNION {[1..n -> Channels] : n \in 1..MaxTargets}

NextReg ==
    \/ \E n \in Nicks : Nick(n)
    \/ User \/ Pass
    \/ BasicAuthOk \/ BasicAuthFail
    \/ AuthOk
    \/ \E status \in Statuses : ProbeFail(status)
    \/ \E cnames \in JoinLists : JoinList(cnames)
    \/ Force("#twitter", None)
    \/ Quit

SpecReg == InitReg /\ [][NextReg]_vars

\* the data store under its callers: try_local_password looks a name up
\* with no id, basic_auth_ok looks an identity up, set_authenticated_user
\* and set_user_token (pairing) look it up with create=True; a Twitter
\* account can change its screen name and a freed name can be taken
GetUser(twitter_id, screen_name, create) ==
    /\ create => twitter_id # None
    /\ Becomes(get_user(World, twitter_id, screen_name, create))

SetUserToken(twitter_id, screen_name) ==
    Becomes(set_user_token(World, twitter_id, screen_name))

NextData ==
    \/ \E id \in TwitterIds \cup {None}, name \in ScreenNames, create \in BOOLEAN :
          GetUser(id, name, create)
    \/ \E id \in TwitterIds, name \in ScreenNames : SetUserToken(id, name)

SpecData == InitReg /\ [][NextData]_vars

\* the scheduler driven through its own interface and through the feeds'
NextSched ==
    \/ \E f \in SchedFeeds : StartRefreshing(f)
    \/ \E f \in SchedFeeds : StopRefreshing(f)
    \/ Start
    \/ Stop
    \/ \E d \in ResetDelays : WaitRateLimit(d)
    \/ \E i \in 1..Len(inflight) : Succeed(i)
    \/ Tick
    \/ Advance(REFRESH_DELAY)

SpecSched == InitSched /\ [][NextSched]_vars

\* one timeline, the home timeline of #twitter, followed from the point
\* where the session is authenticated
NextFeed ==
    \/ Join("#twitter")
    \/ Part("#twitter")
    \/ \E last \in {None, 0} : Force("#twitter", last)
    \/ Post("home")
    \/ \E i \in 1..Len(inflight) : Succeed(i)
    \/ \E i \in 1..Len(inflight) : Fail(i, "ouch")
    \/ Start
    \/ Tick
    \/ Advance(REFRESH_DELAY)

SpecFeed == InitSched /\ [][NextFeed]_vars

NextThrottler ==
    \/ \E e \in ErrorObjects : TError(e)
    \/ TOk

SpecThrottler == Init /\ [][NextThrottler]_vars


\* ------------------------------------------------------------------------
\* Properties of the error throttler (SpecThrottler)
\* ------------------------------------------------------------------------
\* C7: for any stream of error/ok events, an error is forwarded to the
\* wrapped function unchanged, at most MAX_SAME_ERROR errors of a run of
\* errors with the same string form are forwarded, the next error of the run
\* produces exactly one ThrottlerStopMessage with the same-error text, and an
\* error arriving while the throttler is stopped produces no call at all.
ThmC7 ==
    [][\A e \in ErrorObjects : TError(e) =>
          /\ Len(emitted') <= 1
          /\ \A i \in 1..Len(emitted') :
                emitted'[i].kind = "error" => emitted'[i].msg = e
          /\ run_fwd' <= MAX_SAME_ERROR
          /\ (prev = <<str(e)>> /\ run_len = MAX_SAME_ERROR /\ run_fwd = MAX_SAME_ERROR)
                => emitted' = <<ThrottlerStopMessage(SAME_ERROR_MSG)>>
          /\ t.stopped => emitted' = <<>>
      ]_vars

\* a run of MAX_SAME_ERROR + 1 identical errors has just been muted
WitC7 ==
    /\ emitted = <<ThrottlerStopMessage(SAME_ERROR_MSG)>>
    /\ run_len = MAX_SAME_ERROR + 1 /\ run_fwd = MAX_SAME_ERROR

\* C8 as stated: between two ok() events at most MAX_DIFF_ERROR errors are
\* forwarded, and the first error beyond that total, met by a throttler that
\* is not stopped, produces exactly one ThrottlerStopMessage with the
\* too-many-errors text and stops the throttler.
CexC8 ==
    [][\A e \in ErrorObjects : TError(e) =>
          /\ fwd_since_ok' <= MAX_DIFF_ERROR
          /\ (errs_since_ok = MAX_DIFF_ERROR /\ ~t.stopped)
                => /\ emitted' = <<ThrottlerStopMessage(LOTS_ERRORS_MSG)>>
                   /\ t'.stopped
      ]_vars

\* C8 amended: ... the stop message carries the too-many-errors text unless
\* that error also repeats the previous one beyond the same-error cap, in
\* which case it carries the same-error text.
ThmC8 ==
    [][\A e \in ErrorObjects : TError(e) =>
          /\ fwd_since_ok' <= MAX_DIFF_ERROR
          /\ (errs_since_ok = MAX_DIFF_ERROR /\ ~t.stopped)
                => /\ emitted' = <<ThrottlerStopMessage(
                                     IF prev = <<str(e)>> /\ run_len >= MAX_SAME_ERROR
                                     THEN SAME_ERROR_MSG ELSE LOTS_ERRORS_MSG)>>
                   /\ t'.stopped
      ]_vars

\* the error beyond the total has just been muted with the too-many text
WitC8 ==
    /\ emitted = <<ThrottlerStopMessage(LOTS_ERRORS_MSG)>>
    /\ errs_since_ok = MAX_DIFF_ERROR + 1 /\ fwd_since_ok = MAX_DIFF_ERROR
    /\ t.stopped

\* C9: ok() emits exactly one BackWorkingMessage when the throttler was
\* stopped and nothing otherwise, leaves both counters at zero and the
\* throttler not stopped; the errors that follow are answered as a fresh
\* throttler answers them.
ThmC9 ==
    [][/\ TOk => /\ emitted' = IF t.stopped
                               THEN <<BackWorkingMessage(BACK_WORKING)>> ELSE <<>>
                 /\ t'.same_err_count = 0 /\ t'.any_err_count = 0 /\ ~t'.stopped
       /\ \A e \in ErrorObjects : TError(e) =>
             /\ emitted' = error(shadow, e).out
             /\ errs_since_ok = 0 => emitted' = <<Forwarded(e)>>
      ]_vars

\* an ok() has just ended a muted episode
WitC9 ==
    /\ emitted = <<BackWorkingMessage(BACK_WORKING)>>
    /\ ~t.stopped /\ t.last_err # <<>>


\* ------------------------------------------------------------------------
\* Properties of the scheduler (SpecSched)
\* ------------------------------------------------------------------------
RECURSIVE SumOver(_, _)
SumOver(fn, S) ==
    IF S = {} THEN 0
    ELSE LET x == CHOOSE y \in S : TRUE IN fn[x] + SumOver(fn, S \ {x})

\* calls of registered callables made by the scheduler since the last tick
Invocations == SumOver(invoked, Feeds)

\* C3: between two consecutive ticks the scheduler invokes registered
\* callables at most as many times as handles were registered at the earlier
\* tick: the shots are set at the tick, never negative, and every invocation
\* takes exactly one of them.
ThmC3 ==
    /\ shots_available >= 0
    /\ Invocations + shots_available = n_at_tick
    /\ Invocations <= n_at_tick

\* a tick over two handles whose shots have both been used
WitC3 ==
    /\ ticks /\ n_at_tick = 2
    /\ Invocations = 2 /\ shots_available = 0

\* C4 as stated: on the shots of one tick no handle's callable is invoked
\* more than once.
CexC4 == \A f \in Feeds : invoked[f] <= 1

\* C5: while the scheduler runs and no stop() has intervened since the last
\* tick, exactly one tick timer is pending and it fires REFRESH_DELAY x N
\* seconds after that tick, N being the number of handles registered at the
\* tick; there is never more than one pending tick timer.
ThmC5 ==
    /\ Len(timers) <= 1
    /\ (running /\ ticks /\ ~intervened) =>
          /\ timers = <<REFRESH_DELAY * n_at_tick - since_tick>>
          /\ next_call = timers[1]

\* half-way between two ticks over two handles
WitC5 ==
    /\ running /\ ticks /\ ~intervened
    /\ n_at_tick = 2 /\ since_tick = REFRESH_DELAY
    /\ timers = <<REFRESH_DELAY>>

\* C6 as stated: wait_rate_limit() with a tick pending replaces it by one
\* tick at the reset time when the reset time is more than REFRESH_DELAY
\* seconds ahead, and leaves it alone otherwise.
CexC6 ==
    [][\A d \in ResetDelays : (WaitRateLimit(d) /\ next_call # None) =>
          IF d > REFRESH_DELAY
          THEN timers' = <<d>> /\ next_call' = d
          ELSE timers' = timers /\ next_call' = next_call
      ]_vars


\* ------------------------------------------------------------------------
\* Properties of a feed (SpecFeed)
\* ------------------------------------------------------------------------
\* the entry ids the feed's entry callbacks have seen, in the order seen
Observed(f) == Flatten(delivered[f])

\* C1 as stated: over any sequence of scheduled, immediate and forced
\* refreshes the entry callbacks of a feed see strictly ascending ids: no id
\* is delivered that is at most an id delivered earlier by the same feed.
CexC1 ==
    \A f \in Feeds :
        \A i, j \in 1..Len(Observed(f)) : i < j => Observed(f)[i] < Observed(f)[j]

\* C2: the watermark of a feed never decreases, and between dispatches the
\* watermark in memory equals the persisted user variable and equals the
\* greatest entry id delivered to the entry callbacks so far (none: None).
ThmC2 ==
    /\ [](\A f \in Feeds :
             /\ last_id(World, f) = user_vars[f]
             /\ user_vars[f] = MaxOf(Range(Observed(f))))
    /\ [][\A f \in Feeds :
             /\ user_vars'[f] >= user_vars[f]
             /\ (_last_id[f] # None) => (_last_id'[f] >= _last_id[f])
         ]_vars

\* two batches have been delivered and the watermark stands at the newest id
WitC2 ==
    /\ Len(delivered["home"]) >= 2
    /\ _last_id["home"] = MaxId /\ user_vars["home"] = MaxId
    /\ MaxOf(Range(Observed("home"))) = MaxId


\* ------------------------------------------------------------------------
\* Properties of the session (Spec)
\* ------------------------------------------------------------------------
\* C10 as stated: the step that tears the session down (QUIT or connection
\* loss) leaves the DM feed and every channel feed without a scheduler
\* handle, the joined list empty, and the scheduler stopped with no pending
\* tick.
CexC10 ==
    [][(~quit_sent /\ quit_sent') =>
          /\ \A f \in Feeds : ~updater'[f]
          /\ joined_channels' = <<>>
          /\ ~running' /\ timers' = <<>> /\ next_call' = None
      ]_vars


\* ------------------------------------------------------------------------
\* Late completions (SpecLate): one timeline channel of an authenticated
\* session, with requests that outlive the PART or the QUIT
\* ------------------------------------------------------------------------
NextLate ==
    \/ Join("#twitter")
    \/ Part("#twitter")
    \/ Quit
    \/ Post("home")
    \/ \E i \in 1..Len(inflight) : Succeed(i)
    \/ Start
    \/ Tick
    \/ Advance(REFRESH_DELAY)

SpecLate == InitSched /\ [][NextLate]_vars

\* C11 as stated: the completion of a request whose feed was stopped, or
\* whose session was torn down, while it was in flight delivers no entry,
\* moves no watermark, and causes no further request or scheduler call.
CexC11 ==
    [][\A i \in 1..Len(inflight) :
          (Succeed(i) /\ (quit_sent \/ ~updater[inflight[i].feed])) =>
              /\ delivered' = delivered
              /\ user_vars' = user_vars /\ _last_id' = _last_id
              /\ Len(inflight') < Len(inflight)
              /\ invoked' = invoked
      ]_vars


\* ------------------------------------------------------------------------
\* Cancellation in the scheduler (SpecSched)
\* ------------------------------------------------------------------------
\* C12: a handle that was destroyed (its feed holds no handle) is in neither
\* the registered set nor the pending queue, and no step of the scheduler
\* calls its callable, whatever ticks, start(), stop(), wait_rate_limit(),
\* registrations and completions of other feeds follow.
ThmC12 ==
    \A f \in Feeds :
        ~updater[f] =>
            /\ f \notin updaters
            /\ f \notin Range(pending_queue)
            /\ f \notin Range(called)

\* the DM feed was started and its handle destroyed with the request still
\* in flight; the running scheduler has just called another handle
WitC12 ==
    /\ ~updater["dm"] /\ loading["dm"]
    /\ running /\ called # <<>>


\* C13 as stated: while the scheduler is stopped no tick is pending and no
\* step makes the scheduler call a registered callable, whatever resched(),
\* new_updater(), destroy() and wait_rate_limit() calls arrive.
CexC13 ==
    ~running =>
        /\ timers = <<>> /\ next_call = None
        /\ called = <<>>

\* ------------------------------------------------------------------------
\* Registration and early authentication (ircd.py:1898-1963)
\* ------------------------------------------------------------------------
Numerics(msgs) == {[cmd |-> msgs[i].cmd, to |-> msgs[i].to] : i \in 1..Len(msgs)}

WelcomeReplies(n) ==
    {[cmd |-> c, to |-> n] : c \in {RPL_WELCOME, RPL_YOURHOST, RPL_CREATED, RPL_MYINFO}}

CexC15 ==
    [][\A cnames \in JoinLists :
          (JoinList(cnames) /\ got_nick /\ got_user /\ ~password) =>
              /\ ~api' /\ ~scheduler'
              /\ \A i \in 1..Len(cnames) :
                    IF IsTwitterChannel(cnames[i])
                    THEN /\ \E k \in 1..Len(sent') :
                               /\ sent'[k].cmd = ERR_NEEDREGGEDNICK
                               /\ sent'[k].params[1] = cnames[i]
                         /\ cnames[i] \notin Range(joined_channels')
                         /\ \A f \in Range(_createFeeds(cnames[i])) : ~updater'[f]
                    ELSE cnames[i] \in Range(joined_channels') ]_vars

\* what the claim says of a failure that is a missing delegated
\* registration, and of any other failure
MissingRegistrationAnswer ==
    /\ ~lost' /\ ~authenticated_user' /\ ~api'
    /\ WelcomeReplies(nick') \subseteq Numerics(sent')
    /\ "#new-user-setup" \in Range(joined_channels')
    /\ ERR_PASSWDMISMATCH \notin {sent'[k].cmd : k \in 1..Len(sent')}

OtherFailureAnswer ==
    /\ ERR_PASSWDMISMATCH \in {sent'[k].cmd : k \in 1..Len(sent')}
    /\ lost' /\ ~authenticated_user'

\* the failures the remote's answers lead to
FailsLater ==
    /\ (Connected /\ BasicAuthOk /\ ~auth_inflight') => MissingRegistrationAnswer
    /\ (Connected /\ ProbeFail("401")) => MissingRegistrationAnswer
    /\ (Connected /\ BasicAuthFail) => OtherFailureAnswer
    /\ (Connected /\ ProbeFail("500")) => OtherFailureAnswer

\* the failures inside the command that starts the attempt
FailsAtOnce ==
    ((User \/ Pass \/ \E n \in Nicks : Nick(n)) /\ exc' # "") => OtherFailureAnswer

\* C16: when the authentication attempt of a connected session fails for a
\* missing account, a missing token or a 401 of the token probe, the
\* connection is kept, the session is not authenticated, the welcome replies
\* are sent and #new-user-setup is joined; when it fails in any other way the
\* client is sent ERR_PASSWDMISMATCH, the connection is dropped and the
\* session is not authenticated, then or later.
CexC16 ==
    [][/\ FailsLater
       /\ FailsAtOnce
       /\ (lost /\ ~auth_inflight) => (authenticated_user' = authenticated_user) ]_vars

\* ------------------------------------------------------------------------
\* The data store (data.py:155-178)
\* ------------------------------------------------------------------------
\* C17: no step changes the twitter_id of a row of users that holds one.
CexC17 ==
    [][\A i \in 1..Len(users) :
          users[i].twitter_id # None =>
              /\ i <= Len(users')
              /\ users'[i].twitter_id = users[i].twitter_id ]_vars

\* ------------------------------------------------------------------------
\* handleCommand (ircd.py:1561-1587)
\* ------------------------------------------------------------------------
Count(msgs, P(_)) == Cardinality({k \in 1..Len(msgs) : P(msgs[k])})

IsNotice(m) == m.cmd = "NOTICE"

\* C18: a command whose handler raises ErrorReply(command, args) sends
\* exactly one message with that command and those arguments, addressed to
\* the session nick, and no notice; a command whose handler raises anything
\* else sends exactly one notice and nothing else; neither drops the
\* connection nor ends the session, so the next command is still handled.
ThmC18 ==
    [][exc' # "" =>
          /\ IF exc' = "ErrorReply"
             THEN LET IsReply(m) == /\ m.cmd = exc_args'[1] /\ m.to = nick'
                                    /\ m.params = Tail(exc_args')
                  IN  /\ Count(sent', IsReply) = 1
                      /\ Count(sent', IsNotice) = 0
             ELSE /\ Count(sent', IsNotice) = 1
                  /\ Len(sent') = 1
          /\ lost' = lost /\ quit_sent' = quit_sent
          /\ Connected => Connected' ]_vars

WitC18 ==
    /\ exc = "ErrorReply" /\ exc_args = <<ERR_NEEDREGGEDNICK, "#mentions">>
    /\ Connected /\ Len(sent) = 1 /\ sent[1].cmd = ERR_NEEDREGGEDNICK

\* ------------------------------------------------------------------------
\* TwitterFeed.refresh (feeds.py:203-226)
\* ------------------------------------------------------------------------
Refreshes(q, f) == SelectSeq(q, LAMBDA r : r.feed = f /\ r.kind = "refresh")

\* C19: a step in which refresh() returned at the loading test leaves the
\* feed loading and, when the feed was loading before the step, leaves the
\* feed's refresh() requests in flight, its dispatched entries and its
\* watermark as they were; a feed has at most one refresh() request in
\* flight, and has one exactly when it is loading.
ThmC19 ==
    [][/\ \A f \in Feeds :
             /\ Len(Refreshes(inflight', f)) <= 1
             /\ loading'[f] <=> (Len(Refreshes(inflight', f)) = 1)
       /\ \A f \in Range(skipped') :
             /\ loading'[f]
             /\ loading[f] =>
                   /\ Refreshes(inflight', f) = Refreshes(inflight, f)
                   /\ delivered'[f] = delivered[f]
                   /\ _last_id'[f] = _last_id[f] ]_vars

WitC19 ==
    /\ skipped = <<"dm">> /\ called = <<"dm">> /\ ticks
    /\ loading["dm"] /\ Len(Refreshes(inflight, "dm")) = 1

\* ------------------------------------------------------------------------
\* The order of one dispatch (feeds.py:185-195)
\* ------------------------------------------------------------------------
IsCallback(ev) == ev.op = "entry_cb"

IsAdvance(ev) == ev.op = "update_last_id"

\* every advance of the watermark follows the callbacks of the entry it is
\* advanced to
CallbackFirst(tr) ==
    \A k \in 1..Len(tr) : IsAdvance(tr[k]) =>
        \E j \in 1..(k - 1) :
            /\ IsCallback(tr[j])
            /\ tr[j].feed = tr[k].feed /\ tr[j].id = tr[k].id

\* the watermark of feed f, in memory and persisted, when event k of a
\* dispatch happens: the last advance before k, or else what the step found
WatermarksAt(tr, k, f) ==
    LET A == {j \in 1..(k - 1) : IsAdvance(tr[j]) /\ tr[j].feed = f}
    IN  IF A = {} THEN {_last_id[f], user_vars[f]} ELSE {tr[MaxOf(A)].id}

\* C20 as stated: the callbacks of an entry come before the watermark is
\* advanced to its id, and while an entry of the refresh is not dispatched
\* yet the watermark, in memory and persisted, is below its id.
CexC20 ==
    [][/\ CallbackFirst(trace')
       /\ \A k \in 1..Len(trace') : IsCallback(trace'[k]) =>
             \A m \in WatermarksAt(trace', k, trace'[k].feed) : m < trace'[k].id ]_vars

\* C20: the callbacks of an entry come before the watermark is advanced to
\* its id, and the watermark is never advanced to an id greater than or
\* equal to the id of an entry of the same refresh that is not dispatched
\* yet.
ThmC20 ==
    [][/\ CallbackFirst(trace')
       /\ \A k \in 1..Len(trace') : IsAdvance(trace'[k]) =>
             /\ _last_id'[trace'[k].feed] >= trace'[k].id
             /\ \A j \in (k + 1)..Len(trace') :
                   (IsCallback(trace'[j]) /\ trace'[j].feed = trace'[k].feed)
                       => trace'[k].id < trace'[j].id ]_vars

WitC20 ==
    /\ Len(trace) = 4
    /\ IsCallback(trace[1]) /\ IsAdvance(trace[2])
    /\ IsCallback(trace[3]) /\ IsAdvance(trace[4])
    /\ trace[4].id = _last_id["home"] /\ user_vars["home"] = trace[4].id

\* ------------------------------------------------------------------------
\* RefreshUpdater.resched (scheduler.py:54-59)
\* ------------------------------------------------------------------------
Occurrences(q, u) == Cardinality({i \in 1..Len(q) : q[i] = u})

\* a handle is in the pending queue at most once, and exactly when its
\* pending flag is set
QueuedOnce ==
    \A u \in Feeds :
        /\ Occurrences(pending_queue, u) <= 1
        /\ pending[u] <=> (Occurrences(pending_queue, u) = 1)

\* C21 as stated: a handle is queued at most once, exactly when it is
\* pending, and the resched() calls made on it between two ticks lead to at
\* most one call of its callable.
CexC21 ==
    /\ QueuedOnce
    /\ \A u \in Feeds : ticks => invoked[u] <= 1

\* ------------------------------------------------------------------------
\* TwitterUserCache and its subscribers (ircd.py:145-236, 284-383)
\* ------------------------------------------------------------------------
\* connections a server holds at once
MaxSessions == 2

DisplayNames == {"Al", "Bob"}

TwitterUserInfo(screen_name, name) == [screen_name |-> screen_name, name |-> name]

\* the row's content as a one-element sequence, <<>> for None
lookup_id(w, id) == w.twitter_users[id]

\* CachedTwitterIrcUser.nick, read from the row or from UnavailableTwitterData
cached_nick(w, id) ==
    IF lookup_id(w, id) = <<>> THEN "user-id" ELSE lookup_id(w, id)[1].screen_name

send_message(w, sender, cmd, params) ==
    [w EXCEPT !.sent = Append(@, [cmd |-> cmd, from |-> sender, params |-> params])]

notifyNickChange(w, id, new_nick) ==
    send_message(w, cached_nick(w, id), "NICK", <<new_nick>>)

data_changed(w, id, old_info, new_info) ==
    IF old_info = <<>> \/ old_info[1].screen_name # new_info.screen_name
    THEN notifyNickChange(w, id, new_info.screen_name)
    ELSE w

\* subscriber k is called: the trace records its arguments and what a lookup
\* of the id returns during the call
_user_changed(w, k, id, old_info, new_info) ==
    LET w1 == [w EXCEPT !.trace = Append(@,
                  [op |-> "_user_changed", subscriber |-> k, id |-> id,
                   old_info |-> old_info, new_info |-> new_info,
                   lookup |-> lookup_id(w, id)])]
    IN  IF id \in w1._watched_ids[k]
        THEN data_changed(w1, id, old_info, new_info)
        ELSE w1

\* CallbackList.callback from subscriber k on
RECURSIVE callback(_, _, _, _, _)
callback(w, k, id, old_info, new_info) ==
    IF k > w.callbacks THEN w
    ELSE callback(_user_changed(w, k, id, old_info, new_info), k + 1,
                  id, old_info, new_info)

to_data(w, id, new_info) == [w EXCEPT !.twitter_users[id] = <<new_info>>]

\* a variant that writes the row before it calls the subscribers
_change_data_write_first(w, id, old_info, new_info) ==
    callback(to_data(w, id, new_info), 1, id, old_info, new_info)

_change_data(w, id, old_info, new_info) ==
    to_data(callback(w, 1, id, old_info, new_info), id, new_info)

_new_user(w, id, info) == _change_data(w, id, <<>>, info)

_update_user_info(w, id, new_info) ==
    IF lookup_id(w, id) = <<>> THEN _new_user(w, id, new_info)
    ELSE _change_data(w, id, lookup_id(w, id), new_info)

update_user_info(w, id, screen_name, name) ==
    _update_user_info(w, id, TwitterUserInfo(screen_name, name))

\* a connection is made: its TwitterIrcUserCache subscribes to the cache
NewSession ==
    /\ callbacks < MaxSessions
    /\ Becomes([World EXCEPT !.callbacks = @ + 1,
                             !._watched_ids = Append(@, {})])

\* get_twitter_user(id, watch=True)
WatchUser(k, id) ==
    /\ k \in 1..callbacks
    /\ Becomes([World EXCEPT !._watched_ids[k] = @ \cup {id}])

UpdateUserInfo(id, screen_name, name) ==
    Becomes(update_user_info(World, id, screen_name, name))

NextCache ==
    \/ NewSession
    \/ \E k \in 1..MaxSessions, id \in TwitterIds : WatchUser(k, id)
    \/ \E id \in TwitterIds, screen_name \in ScreenNames, name \in DisplayNames :
          UpdateUserInfo(id, screen_name, name)

SpecCache == Init /\ [][NextCache]_vars

IsUserChanged(ev) == ev.op = "_user_changed"

\* C22: an update of the identity cache calls every subscriber exactly once,
\* with the id, the row's content before the update (none when there was no
\* row) and the new content; during each call a lookup of the id still
\* returns the old content, and the row is written after the last call.
ThmC22 ==
    [][ (trace' # <<>> \/ twitter_users' # twitter_users) =>
          /\ Len(trace') = callbacks
          /\ \A k \in 1..callbacks :
                Cardinality({i \in 1..Len(trace') :
                                /\ IsUserChanged(trace'[i])
                                /\ trace'[i].subscriber = k}) = 1
          /\ \A i \in 1..Len(trace') :
                /\ trace'[i].old_info = twitter_users[trace'[i].id]
                /\ trace'[i].lookup = twitter_users[trace'[i].id]
                /\ twitter_users'[trace'[i].id] = <<trace'[i].new_info>>
                /\ \A id \in TwitterIds \ {trace'[i].id} :
                      twitter_users'[id] = twitter_users[id] ]_vars

\* two subscribers were told of a changed row, which now holds the new content
WitC22 ==
    /\ Len(trace) = 2 /\ callbacks = 2
    /\ IsUserChanged(trace[1]) /\ IsUserChanged(trace[2])
    /\ trace[2].old_info # <<>>
    /\ trace[2].lookup = trace[2].old_info
    /\ trace[2].new_info # trace[2].old_info[1]
    /\ twitter_users[trace[2].id] = <<trace[2].new_info>>
    /\ sent # <<>>

\* ------------------------------------------------------------------------
\* Text (utils.py, ircd.py:1475-1611)
\* A text is a sequence of characters, each a one-character string; the
\* literals of the program's own messages are kept as one element each.
\* ------------------------------------------------------------------------
CR == "\r"
LF == "\n"
\* the IRC bold marker, \x02
BOLD == "^B"

StartsWith(s, p) == Len(s) >= Len(p) /\ SubSeq(s, 1, Len(p)) = p

Drop(s, n) == SubSeq(s, n + 1, Len(s))

\* str.replace: every non-overlapping occurrence, left to right
RECURSIVE Replace(_, _, _)
Replace(s, old, new) ==
    IF s = <<>> THEN <<>>
    ELSE IF StartsWith(s, old) THEN new \o Replace(Drop(s, Len(old)), old, new)
    ELSE <<Head(s)>> \o Replace(Tail(s), old, new)

\* str.split(sep) for a one-character separator
RECURSIVE Split(_, _)
Split(s, sep) ==
    IF \A i \in 1..Len(s) : s[i] # sep THEN <<s>>
    ELSE LET k == CHOOSE i \in 1..Len(s) :
                     s[i] = sep /\ \A j \in 1..(i - 1) : s[j] # sep
         IN  <<SubSeq(s, 1, k - 1)>> \o Split(Drop(s, k), sep)

\* htmlentitydefs.name2codepoint, the entities Twitter uses
name2codepoint ==
    {[name |-> <<"a", "m", "p">>, char |-> "&"],
     [name |-> <<"l", "t">>, char |-> "<"],
     [name |-> <<"g", "t">>, char |-> ">"]}

Digits == {"0", "1", "2", "3", "4", "5", "6", "7", "8", "9"}

DigitValue(c) ==
    CASE c = "0" -> 0 [] c = "1" -> 1 [] c = "2" -> 2 [] c = "3" -> 3
      [] c = "4" -> 4 [] c = "5" -> 5 [] c = "6" -> 6 [] c = "7" -> 7
      [] c = "8" -> 8 [] c = "9" -> 9

RECURSIVE int(_)
int(ds) ==
    IF ds = <<>> THEN 0
    ELSE 10 * int(SubSeq(ds, 1, Len(ds) - 1)) + DigitValue(ds[Len(ds)])

\* unichr, on the code points the texts use; any other is a printable "?"
unichr(n) ==
    CASE n = 10 -> LF [] n = 13 -> CR [] n = 38 -> "&" [] n = 60 -> "<"
      [] n = 62 -> ">" [] OTHER -> "?"

\* length of the run of digits a text starts with
RECURSIVE DigitRun(_)
DigitRun(s) ==
    IF s # <<>> /\ Head(s) \in Digits THEN 1 + DigitRun(Tail(s)) ELSE 0

\* re.sub('&(name);', ...)
RECURSIVE DecodeNamed(_)
DecodeNamed(s) ==
    IF s = <<>> THEN <<>>
    ELSE LET hits == {e \in name2codepoint :
                         StartsWith(s, <<"&">> \o e.name \o <<";">>)}
         IN  IF hits # {}
             THEN LET e == CHOOSE e \in hits : TRUE
                  IN  <<e.char>> \o DecodeNamed(Drop(s, Len(e.name) + 2))
             ELSE <<Head(s)>> \o DecodeNamed(Tail(s))

\* re.sub('&#([0-9]+);', ...)
RECURSIVE DecodeNumeric(_)
DecodeNumeric(s) ==
    IF s = <<>> THEN <<>>
    ELSE LET n == IF StartsWith(s, <<"&", "#">>) THEN DigitRun(Drop(s, 2)) ELSE 0
         IN  IF n > 0 /\ Len(s) >= n + 3 /\ s[n + 3] = ";"
             THEN <<unichr(int(SubSeq(s, 3, n + 2)))>> \o DecodeNumeric(Drop(s, n + 3))
             ELSE <<Head(s)>> \o DecodeNumeric(Tail(s))

htmlentitydecode(s) == DecodeNumeric(DecodeNamed(s))

undo_xss_escaping(s) ==
    Replace(Replace(s, <<"&", "l", "t", ";">>, <<"<">>),
            <<"&", "g", "t", ";">>, <<">">>)

full_entity_decode(s) == undo_xss_escaping(htmlentitydecode(s))

HasNewline(msg) == \E i \in 1..Len(msg) : msg[i] \in {CR, LF}

\* a variant that leaves the text as it is
keep_newlines(msg) == msg

\* the "just in case" replacement of send_notice and send_privmsg
no_newlines(msg) ==
    IF HasNewline(msg)
    THEN Replace(Replace(msg, <<CR>>, <<" ">>), <<LF>>, <<" ">>)
    ELSE msg

send_privmsg(w, sender, target, msg) ==
    send_message(w, sender, "PRIVMSG", <<target, no_newlines(msg)>>)

send_notice(w, sender, target, msg) ==
    send_message(w, sender, "NOTICE", <<target, no_newlines(msg)>>)

user_cfg_var_b(w, var) == w.user_cfg[var]

RECURSIVE send_lines(_, _, _, _)
send_lines(w, sender, target, lines) ==
    IF lines = <<>> THEN w
    ELSE send_lines(send_privmsg(w, sender, target, Head(lines)),
                    sender, target, Tail(lines))

\* a variant that sends the empty lines too
send_text_every_line(w, sender, target, text0) ==
    LET text == Replace(full_entity_decode(text0), <<CR>>, <<LF>>)
        parts == Split(text, LF)
        lines == IF user_cfg_var_b(w, "multiline")
                 THEN [i \in 1..Len(parts) |->
                          IF i = 1 THEN parts[i] ELSE <<"[...] ">> \o parts[i]]
                 ELSE <<Replace(text, <<LF>>, <<" ">>)>>
    IN  send_lines(w, sender, target, lines)

send_text(w, sender, target, text0) ==
    LET text == Replace(full_entity_decode(text0), <<CR>>, <<LF>>)
        parts == SelectSeq(Split(text, LF), LAMBDA line : line # <<>>)
        lines == IF user_cfg_var_b(w, "multiline")
                 THEN [i \in 1..Len(parts) |->
                          IF i = 1 THEN parts[i] ELSE <<"[...] ">> \o parts[i]]
                 ELSE <<Replace(text, <<LF>>, <<" ">>)>>
    IN  send_lines(w, sender, target, lines)

\* ------------------------------------------------------------------------
\* TwitterChannel: entries received (ircd.py:479-591)
\* ------------------------------------------------------------------------
REPLY_HISTORY_SIZE == 100

passerd_bot == <<"passerd-bot">>

TheChannel == "#twitter"

bot_msg(w, msg) == send_privmsg(w, passerd_bot, TheChannel, msg)

bot_notice(w, msg) == send_notice(w, passerd_bot, TheChannel, msg)

\* an entry of a timeline; retweeted_status is <<>> or holds the inner entry
Entry(id, user, text, created_at, retweeted_status) ==
    [id |-> id, user |-> user, text |-> text, created_at |-> created_at,
     retweeted_status |-> retweeted_status]

\* a variant that ignores the rt_inline setting
printEntry_always_inline(w, entry) ==
    LET is_rt == entry.retweeted_status # <<>>
        e == IF is_rt THEN entry.retweeted_status[1] ELSE entry
        text == IF is_rt
                THEN e.text \o <<" ", BOLD, "[RT by @">> \o entry.user.screen_name
                            \o <<"]", BOLD>>
                ELSE e.text
    IN  send_text(w, cached_nick(w, e.user.id), TheChannel, text)

printEntry(w, entry) ==
    LET is_rt == entry.retweeted_status # <<>>
        e == IF is_rt THEN entry.retweeted_status[1] ELSE entry
        rt_inline == user_cfg_var_b(w, "rt_inline")
        text == IF is_rt /\ rt_inline
                THEN e.text \o <<" ", BOLD, "[RT by @">> \o entry.user.screen_name
                            \o <<"]", BOLD>>
                ELSE e.text
        w1 == send_text(w, cached_nick(w, e.user.id), TheChannel, text)
    IN  IF is_rt /\ ~rt_inline
        THEN bot_msg(w1, <<"(">> \o e.user.screen_name \o <<" retweeted by ">>
                         \o entry.user.screen_name \o <<")">>)
        ELSE w1

_drop_one_old_entry(w) ==
    LET drop == Head(w.recent_posts)
        uid == drop.user.id
        urec == w.recent_by_user[uid]
        w1 == [w EXCEPT !.recent_posts = Tail(@)]
    IN  IF Len(urec) > 0 /\ urec[1].id = drop.id
        THEN [w1 EXCEPT !.recent_by_user[uid] = Tail(@)]
        ELSE w1

\* `list > int` in CPython 2: a number orders before an object of any other
\* type, whatever the list holds
list_gt_int(l, n) == TRUE

_add_to_history(w, e) ==
    LET w1 == [w EXCEPT !.recent_posts = Append(@, e)]
        w2 == IF list_gt_int(w1.recent_posts, REPLY_HISTORY_SIZE)
              THEN _drop_one_old_entry(w1) ELSE w1
    IN  [w2 EXCEPT !.recent_by_user[e.user.id] = Append(@, e)]

got_api_user_info(w, u) == update_user_info(w, u.id, u.screen_name, u.name)

cache_entry(w, e) ==
    LET w1 == _add_to_history(got_api_user_info(w, e.user), e)
    IN  [w1 EXCEPT !.received = Append(@, e)]

chan_got_entry(w, e) ==
    LET w1 == cache_entry(w, e)
        w2 == IF e.retweeted_status # <<>>
              THEN cache_entry(w1, e.retweeted_status[1]) ELSE w1
    IN  printEntry(w2, e)

\* BeCommands (ircd.py:1014-1050), answered through the channel's bot_msg
command_careful(w) ==
    LET w1 == bot_msg(w, <<"I will. From now on, Twitter updates can only be sent with '!tw <message>'">>)
        w2 == bot_msg(w1, <<"You can disable this setting using: '!be brave'">>)
    IN  [w2 EXCEPT !.user_cfg.careful = TRUE]

command_brave(w) ==
    [bot_msg(w, <<"So you are! Channel messages will be posted directly to Twitter">>)
        EXCEPT !.user_cfg.careful = FALSE]

command_concise(w) ==
    [bot_msg(w, <<"OK. I know I talk too much">>)
        EXCEPT !.user_cfg.rt_inline = TRUE, !.user_cfg.multiline = FALSE]

command_verbose(w) ==
    [bot_msg(w, <<"Thanks. I like to talk, you know  :)">>)
        EXCEPT !.user_cfg.rt_inline = FALSE, !.user_cfg.multiline = TRUE]

\* ConfigCommands.command_set with a known option; user_cfg_var_b reads the
\* value as true when it is one of true_values
true_values == {"true", "t", "1", "y", "yes", "on"}

command_set(w, opt, value) ==
    [bot_msg(w, <<"Option ", opt, " set to: ", value>>)
        EXCEPT !.user_cfg[opt] = (value \in true_values)]

\* a failure of a request: a twisted.web error with its HTTP status, or
\* another exception (status ""), and the text of its value
Failure(status, text) == [status |-> status, text |-> text]

chan_wait_rate_limit(w) ==
    LET w1 == bot_msg(w, <<"Ouch, the limit of requests per hour has been reached. I will wait until ",
                           "<ctime>", " to start checking the Twitter timeline again.">>)
        w2 == bot_msg(w1, <<"You can still try to fetch new tweets using '!'. Also, you can check the rate limit using '!rate'.">>)
    IN  wait_rate_limit(Note(w2, "scheduler.wait_rate_limit"), None)

\* TwitterChannel.refresh_error; remaining is api.rate_limit_remaining
chan_refresh_error(w, e, remaining) ==
    IF e.status = "503"
    THEN bot_notice(w, <<"Look! A flying whale! -- ">> \o e.text)
    ELSE LET w1 == IF e.status = "400" /\ remaining = 0
                   THEN chan_wait_rate_limit(w) ELSE w
         IN  IF w1.exc # "" THEN w1
             ELSE bot_notice(w1, <<"error refreshing feed: ">> \o e.text)

\* ------------------------------------------------------------------------
\* The channel #twitter receiving entries
\* ------------------------------------------------------------------------
\* entries a channel caches in a run
MaxReceived == 2

AL == <<"a", "l">>
BOB == <<"b", "o", "b">>

TwitterUsers ==
    {[id |-> 1, screen_name |-> AL, name |-> "Al"],
     [id |-> 2, screen_name |-> BOB, name |-> "Bob"]}

\* texts the remote can send: plain, with raw line breaks, with a line break
\* as a numeric entity, with one that appears after the named entities are
\* decoded, with a twice-encoded `<`, and with nothing but a line break
RemoteTexts ==
    {<<"h", "i">>,
     <<"a", CR, LF, "b">>,
     <<"a", "&", "#", "1", "0", ";", "b">>,
     <<"a", "&", "a", "m", "p", ";", "#", "1", "3", ";", "b">>,
     <<"&", "a", "m", "p", ";", "l", "t", ";", "3">>,
     <<LF>>}

PlainEntries ==
    {Entry(1, u, text, 0, <<>>) : u \in TwitterUsers, text \in RemoteTexts}

Retweets ==
    {Entry(2, u, <<"R", "T">>, 0, <<e>>) :
        u \in TwitterUsers, e \in {p \in PlainEntries : p.user.id = 1}}

Failures ==
    {Failure(status, text) :
        status \in {"", "400", "503"},
        text \in {<<"o", "u", "c", "h">>, <<"4", "0", "0", CR, LF, "B", "a", "d">>}}

GotEntry(e) ==
    /\ Len(received) + (IF e.retweeted_status # <<>> THEN 2 ELSE 1) <= MaxReceived
    /\ Becomes(chan_got_entry(World, e))

BeConcise == Becomes(command_concise(World))

BeVerbose == Becomes(command_verbose(World))

ConfigSet(opt, value) == Becomes(command_set(World, opt, value))

RefreshError(e, remaining) == Becomes(chan_refresh_error(World, e, remaining))

\* the session authenticated, its TwitterIrcUserCache subscribed to the cache
InitChan ==
    /\ Authenticated
    /\ callbacks = 1 /\ _watched_ids = <<{1}>> /\ cmd_dialog = None
    /\ reactions = Unrecorded

NextEntries ==
    \/ \E e \in PlainEntries \cup Retweets : GotEntry(e)
    \/ BeConcise \/ BeVerbose
    \/ \E opt \in {"rt_inline", "multiline"}, value \in {"on", "off"} :
          ConfigSet(opt, value)
    \/ \E e \in Failures, remaining \in {0, 1} : RefreshError(e, remaining)

SpecEntries == InitChan /\ [][NextEntries]_vars

\* ------------------------------------------------------------------------
\* The reply history (ircd.py:502-524)
\* ------------------------------------------------------------------------
\* the last n elements of a sequence
Latest(q, n) == IF Len(q) <= n THEN q ELSE SubSeq(q, Len(q) - n + 1, Len(q))

\* C23 as stated: after any entries received, the ring holds the most recent
\* ones, at most REPLY_HISTORY_SIZE, every entry of the per-author index is in
\* the ring and every entry of the ring is in its author's index.
CexC23 ==
    /\ Len(recent_posts) <= REPLY_HISTORY_SIZE
    /\ recent_posts = Latest(received, REPLY_HISTORY_SIZE)
    /\ \A uid \in TwitterIds : Range(recent_by_user[uid]) \subseteq Range(recent_posts)
    /\ \A i \in 1..Len(recent_posts) :
          recent_posts[i] \in Range(recent_by_user[recent_posts[i].user.id])

\* ------------------------------------------------------------------------
\* Messages written to the client (ircd.py:1475-1611)
\* ------------------------------------------------------------------------
IsText(m) == m.cmd \in {"PRIVMSG", "NOTICE"}

\* C27: the payload of every PRIVMSG and NOTICE written to the client holds
\* neither CR nor LF, whatever the entry text, the error text or the reply
\* holds, line breaks that appear when the entities are decoded included.
ThmC27 ==
    \A i \in 1..Len(sent) : IsText(sent[i]) => ~HasNewline(sent[i].params[2])

\* an entry whose text holds a CR once &amp;#13; is decoded was shown as one
\* line
WitC27 ==
    /\ received # <<>>
    /\ received[Len(received)].text =
          <<"a", "&", "a", "m", "p", ";", "#", "1", "3", ";", "b">>
    /\ \E i \in 1..Len(sent) :
          /\ sent[i].cmd = "PRIVMSG"
          /\ sent[i].params[2] = <<"a", " ", "b">>

\* ------------------------------------------------------------------------
\* Retweets (ircd.py:479-500)
\* ------------------------------------------------------------------------
\* the step cached a retweet: the wrapper, then the entry it wraps
RetweetShown == Len(received') = Len(received) + 2

Outer == received'[Len(received') - 1]

Inner == received'[Len(received')]

\* the texts of the PRIVMSGs the step sent to the channel from a nick
PrivmsgsFrom(sender) ==
    LET ms == SelectSeq(sent', LAMBDA m :
                  m.cmd = "PRIVMSG" /\ m.from = sender /\ m.params[1] = TheChannel)
    IN  [i \in 1..Len(ms) |-> ms[i].params[2]]

InlineSuffix == <<" ", BOLD, "[RT by @">> \o Outer.user.screen_name \o <<"]", BOLD>>

RetweetedBy ==
    <<"(">> \o Inner.user.screen_name \o <<" retweeted by ">>
            \o Outer.user.screen_name \o <<")">>

\* a text with no entity and no line break
OneLiner(text) == \A i \in 1..Len(text) : text[i] \notin {"&", CR, LF}

\* what C30 says of a retweet
AsC30Says ==
    /\ user_cfg.rt_inline =>
          /\ PrivmsgsFrom(Inner.user.screen_name) = <<Inner.text \o InlineSuffix>>
          /\ PrivmsgsFrom(passerd_bot) = <<>>
    /\ ~user_cfg.rt_inline =>
          /\ PrivmsgsFrom(Inner.user.screen_name) = <<Inner.text>>
          /\ PrivmsgsFrom(passerd_bot) = <<RetweetedBy>>
          /\ sent'[Len(sent')].from = passerd_bot

\* C30 as stated: for every retweet, one PRIVMSG from A with the inner text
\* (and the bold `[RT by @B]` when rt_inline is set), and the bot's
\* `(A retweeted by B)` exactly when rt_inline is not set.
CexC30 == [][RetweetShown => AsC30Says]_vars

\* C30: for a retweet whose inner text has no entity and no line break, one
\* PRIVMSG from A with the inner text (and the bold `[RT by @B]` when
\* rt_inline is set), then the bot's `(A retweeted by B)` exactly when
\* rt_inline is not set; for any inner text, the bot's message is sent
\* exactly when rt_inline is not set, and with multiline off A's text goes
\* out as one PRIVMSG.
ThmC30 ==
    [][RetweetShown =>
          /\ OneLiner(Inner.text) => AsC30Says
          /\ PrivmsgsFrom(passerd_bot) =
                (IF user_cfg.rt_inline THEN <<>> ELSE <<RetweetedBy>>)
          /\ ~user_cfg.multiline => Len(PrivmsgsFrom(Inner.user.screen_name)) = 1
      ]_vars

\* bob's retweet of al's "hi" was shown inline
WitC30 ==
    /\ Len(received) = 2 /\ received[1].retweeted_status = <<received[2]>>
    /\ user_cfg.rt_inline
    /\ sent # <<>>
    /\ sent[Len(sent)] =
          [cmd |-> "PRIVMSG", from |-> AL,
           params |-> <<TheChannel, <<"h", "i", " ", BOLD, "[RT by @", "b", "o", "b",
                                      "]", BOLD>> >>]

\* ------------------------------------------------------------------------
\* TwitterChannel: messages typed in the channel (ircd.py:653-731,
\* 1058-1143, 1966-1971; dialogs.py:128-254)
\* ------------------------------------------------------------------------
LENGTH_LIMIT == 140

MIN_LATEST_POST_AGE == 2

ERR_CANNOTSENDTOCHAN == "404"

\* [a-zA-Z0-9_], on the letters the messages use
NameChars ==
    {"a", "b", "e", "h", "i", "l", "o", "p", "s", "t", "w", "x", "A", "B", "_"}
        \cup Digits

lower(c) == CASE c = "A" -> "a" [] c = "B" -> "b" [] c = "H" -> "h" [] c = "I" -> "i"
                [] OTHER -> c

Lower(s) == [i \in 1..Len(s) |-> lower(s[i])]

\* length of the run of name characters a text starts with
NameRun(s) ==
    LET others == {i \in 1..Len(s) : s[i] \notin NameChars}
    IN  IF others = {} THEN Len(s) ELSE MinOf(others) - 1

\* REPLY_RE.match: (@?)([a-zA-Z0-9_]+)([:, ]) at the start of the text
REPLY_RE(msg) ==
    LET at == IF msg # <<>> /\ Head(msg) = "@" THEN <<"@">> ELSE <<>>
        rest == Drop(msg, Len(at))
        n == NameRun(rest)
    IN  IF n > 0 /\ Len(rest) > n /\ rest[n + 1] \in {":", ",", " "}
        THEN [matched |-> TRUE, at |-> at, nick |-> SubSeq(rest, 1, n),
              end |-> rest[n + 1]]
        ELSE [matched |-> FALSE, at |-> <<>>, nick |-> <<>>, end |-> ""]

\* the id of the row whose screen name is the nick in any case, None when
\* no row or several rows match
lookup_screen_name(w, name) ==
    LET hits == {id \in TwitterIds :
                    /\ w.twitter_users[id] # <<>>
                    /\ Lower(w.twitter_users[id][1].screen_name) = Lower(name)}
    IN  IF Cardinality(hits) = 1 THEN CHOOSE id \in hits : TRUE ELSE None

\* recent_post with no substring: <<>> for None, else the author's latest
\* entry; with a min_age a younger entry raises
recent_post(w, name, min_age) ==
    LET uid == lookup_screen_name(w, name)
        recent == IF uid = None THEN <<>> ELSE w.recent_by_user[uid]
    IN  IF recent = <<>> THEN [r |-> <<>>, exc |-> ""]
        ELSE IF min_age # None /\ recent[Len(recent)].created_at > w.now - min_age
        THEN [r |-> <<>>, exc |-> "Exception"]
        ELSE [r |-> <<recent[Len(recent)]>>, exc |-> ""]

last_post_id(w, name) ==
    LET r == recent_post(w, name, None).r
    IN  IF r = <<>> THEN None ELSE r[1].id

\* a variant that takes a bare `name ` for a reply too
add_in_reply_to_bare(w, msg) ==
    LET m == REPLY_RE(msg)
        last_post == IF m.matched THEN last_post_id(w, m.nick) ELSE None
    IN  IF last_post \notin {None, 0}
        THEN [msg |-> IF Head(msg) = "@" THEN msg ELSE <<"@">> \o msg,
              args |-> <<last_post>>]
        ELSE [msg |-> msg, args |-> <<>>]

\* the text to post and args, <<>> or the in_reply_to_status_id
_add_in_reply_to(w, msg) ==
    LET m == REPLY_RE(msg)
    IN  IF ~m.matched THEN [msg |-> msg, args |-> <<>>]
        ELSE IF m.at # <<"@">> /\ m.end = " " THEN [msg |-> msg, args |-> <<>>]
        ELSE LET last_post == last_post_id(w, m.nick)
             IN  IF last_post \notin {None, 0}
                 THEN [msg |-> IF Head(msg) = "@" THEN msg ELSE <<"@">> \o msg,
                       args |-> <<last_post>>]
                 ELSE [msg |-> msg, args |-> <<>>]

\* a variant with no check of the length
send_twitter_post_nocheck(w, msg, args, origin) ==
    [w EXCEPT !.trace = Append(@, [op |-> "send_twitter_post", msg |-> msg,
                                   args |-> args, origin |-> origin]),
              !.posted = Append(@, [status |-> msg, params |-> args]),
              !.updating = Append(@, origin),
              !.ret = "Deferred"]

\* PasserdProtocol.send_twitter_post: ret is the Deferred's state, and origin
\* the caller whose callbacks wait for the remote's answer
send_twitter_post(w, msg, args, origin) ==
    LET w1 == [w EXCEPT !.trace = Append(@, [op |-> "send_twitter_post", msg |-> msg,
                                             args |-> args, origin |-> origin])]
    IN  IF Len(msg) > LENGTH_LIMIT
        THEN [w1 EXCEPT !.ret = "MessageTooLong"]
        ELSE [w1 EXCEPT !.posted = Append(@, [status |-> msg, params |-> args]),
                        !.updating = Append(@, origin),
                        !.ret = "Deferred"]

\* TwitterChannel.send_twitter_post; the trace records the text it is given
chan_send_twitter_post(w, msg, origin) ==
    LET r == _add_in_reply_to(w, msg)
        w1 == [w EXCEPT !.trace = Append(@, [op |-> "chan_send_twitter_post",
                                             msg |-> msg])]
    IN  send_twitter_post(w1, r.msg, r.args, origin)

DigitChar(d) ==
    CASE d = 0 -> "0" [] d = 1 -> "1" [] d = 2 -> "2" [] d = 3 -> "3"
      [] d = 4 -> "4" [] d = 5 -> "5" [] d = 6 -> "6" [] d = 7 -> "7"
      [] d = 8 -> "8" [] d = 9 -> "9"

\* '%d' % n, for n >= 0
RECURSIVE Decimal(_)
Decimal(n) ==
    IF n < 10 THEN <<DigitChar(n)>>
    ELSE Decimal(n \div 10) \o <<DigitChar(n % 10)>>

\* str() of a MessageTooLong
MessageTooLong(length) ==
    <<"message too long (">> \o Decimal(length) \o <<" characters)">>

do_send_twitter_post(w, msg) ==
    LET w1 == chan_send_twitter_post(w, msg, "channel")
    IN  IF w1.ret = "MessageTooLong"
        THEN send_reply(w1, ERR_CANNOTSENDTOCHAN,
                        <<TheChannel, MessageTooLong(Len(_add_in_reply_to(w, msg).msg))>>)
        ELSE w1

ctcp_ACTION(w, arg) == do_send_twitter_post(w, <<"/", "m", "e", " ">> \o arg)

lstrip(s) == Drop(s, CHOOSE n \in 0..Len(s) :
                        /\ \A i \in 1..n : s[i] = " "
                        /\ n < Len(s) => s[n + 1] # " ")

\* cmd and args; args is <<>> for None as for ''
split_args(s0) ==
    LET s == lstrip(s0)
        parts == Split(s, " ")
    IN  [cmd |-> parts[1],
         args |-> IF Len(parts) > 1 THEN Drop(s, Len(parts[1]) + 1) ELSE <<>>]

\* PasserdCommands: its command_ methods and the entries of self.commands
PostCommands ==
    {<<"p", "o", "s", "t">>, <<"s">>, <<"t", "w", "i", "t">>, <<"t", "w">>,
     <<"u", "p", "d", "a", "t", "e">>}

OtherCommands ==
    {<<"h", "e", "l", "p">>, <<"?">>, <<"c", "o", "n", "f", "i", "g">>,
     <<"l", "o", "g", "i", "n">>, <<"g", "c">>, <<"r", "a", "t", "e">>,
     <<"r", "e", "c", "e", "n", "t">>, <<"r", "t">>}

\* the command a word runs, "" for None
_command_fn(cmd) ==
    CASE Lower(cmd) \in PostCommands -> "post"
      [] Lower(cmd) = <<"b", "e">> -> "be"
      [] Lower(cmd) \in OtherCommands -> "other"
      [] OTHER -> ""

help_post(w) ==
    bot_msg(bot_msg(w, <<"Usage: !POST text">>), <<"Post an update to Twitter">>)

command_post(w, args) ==
    IF args = <<>> THEN help_post(w)
    ELSE LET w1 == chan_send_twitter_post(w, args, "command")
         IN  IF w1.ret = "MessageTooLong"
             THEN bot_msg(w1, <<"Error while posting: ">>
                              \o MessageTooLong(Len(_add_in_reply_to(w, args).msg)))
             ELSE w1

\* the `be` subdialog: BeCommands.recv_message
command_be(w, args) ==
    LET flag == Lower(split_args(args).cmd)
    IN  CASE flag \in {<<"c", "a", "r", "e", "f", "u", "l">>,
                       <<"p", "a", "r", "a", "n", "o", "i", "d">>} -> command_careful(w)
          [] flag = <<"b", "r", "a", "v", "e">> -> command_brave(w)
          [] flag = <<"c", "o", "n", "c", "i", "s", "e">> -> command_concise(w)
          [] flag = <<"v", "e", "r", "b", "o", "s", "e">> -> command_verbose(w)
          [] flag = <<"h", "a", "p", "p", "y">> -> bot_msg(w, <<":)">>)
          [] flag \notin {<<"h", "e", "l", "p">>, <<"?">>} -> bot_msg(w, <<"Be what?">>)

\* CommandDialog.try_msg: ret tells whether the word is a command
try_msg(w, msg) ==
    LET a == split_args(msg)
        fn == _command_fn(a.cmd)
    IN  CASE fn = "" -> [w EXCEPT !.ret = FALSE]
          [] fn = "post" -> [command_post(w, a.args) EXCEPT !.ret = TRUE]
          [] fn = "be" -> [command_be(w, a.args) EXCEPT !.ret = TRUE]

unknown_command(w) ==
    bot_msg(w, <<"Sorry, I don't get it. Type '!HELP' for available commands">>)

\* CommandDialog.recv_message
cmd_recv_message(w, msg) ==
    LET w1 == try_msg(w, msg)
    IN  IF w1.ret = TRUE THEN w1 ELSE unknown_command(w1)

commandReceived(w, cmd) ==
    IF cmd = <<>> \/ cmd = <<"!">>
    THEN forceRefresh(w, TheChannel, IF cmd = <<"!">> THEN 0 ELSE None)
    ELSE cmd_recv_message(w, cmd)

ICantHearYou ==
    <<"I Can't Hear You! Use !tw to post, or disable careful mode using '!be brave'">>

\* a variant that never looks at the careful setting
messageReceived_brave(w0, msg) ==
    LET w == [w0 EXCEPT !.trace = Append(@, [op |-> "messageReceived", msg |-> msg])]
    IN  IF Head(msg) = "!" THEN commandReceived(w, Tail(msg))
        ELSE do_send_twitter_post(w, msg)

\* TwitterChannel.messageReceived; the trace records the message
messageReceived(w0, msg) ==
    LET w == [w0 EXCEPT !.trace = Append(@, [op |-> "messageReceived", msg |-> msg])]
    IN  IF Head(msg) = "!" THEN commandReceived(w, Tail(msg))
        ELSE IF ~user_cfg_var_b(w, "careful") THEN do_send_twitter_post(w, msg)
        ELSE LET w1 == try_msg(w, msg)
             IN  IF w1.ret = TRUE THEN w1 ELSE bot_msg(w1, ICantHearYou)

\* the remote answers an update: the callbacks its caller chained
update_done(w, origin) ==
    IF origin = "channel" THEN bot_notice(w, <<"Twitter update posted!!">>)
    ELSE bot_msg(w, <<"Done. Twitter update posted">>)

update_error(w, origin, e) ==
    IF origin = "channel"
    THEN bot_msg(w, <<w.nick, ": error while posting: ">> \o e.text)
    ELSE bot_msg(w, <<"Error while posting: ">> \o e.text)

\* ------------------------------------------------------------------------
\* The channel #twitter with its user typing
\* ------------------------------------------------------------------------
\* api.update requests awaiting an answer at once
MaxUpdates == 1

\* seconds the clock runs
MaxNow == 2

Filler(n) == [i \in 1..n |-> "x"]

Hi == <<"h", "i">>

\* what the user types: plain text, the forms of a leading nick, a known
\* nick in another case, an unknown nick, texts at and over the limit (one
\* that passes it only with the `@` prepended), commands with and without `!`
ChannelMessages ==
    {Hi,
     <<"@">> \o AL \o <<" ">> \o Hi,
     AL \o <<":", " ">> \o Hi,
     AL \o <<",", " ">> \o Hi,
     AL \o <<" ">> \o Hi,
     <<"A", "l", ":", " ">> \o Hi,
     <<"@">> \o AL,
     <<"@">> \o BOB \o <<" ">> \o Hi,
     Filler(LENGTH_LIMIT),
     Filler(LENGTH_LIMIT + 1),
     AL \o <<":", " ">> \o Filler(LENGTH_LIMIT - 4),
     <<"t", "w", " ">> \o Hi,
     <<"b", "e", " ", "b", "r", "a", "v", "e">>,
     <<"!", "t", "w", " ">> \o AL \o <<":", " ">> \o Hi,
     <<"!", "p", "o", "s", "t", " ">> \o Filler(LENGTH_LIMIT + 1),
     <<"!", "p", "o", "s", "t">>,
     <<"!", "b", "e", " ", "c", "a", "r", "e", "f", "u", "l">>,
     <<"!", "n", "o", "p", "e">>}

ActionTexts == {Hi, Filler(LENGTH_LIMIT - 3)}

\* the next entry of the timeline, posted at this moment
FreshEntries ==
    {Entry(Len(received) + 1, u, Hi, now, <<>>) : u \in TwitterUsers}

\* PRIVMSG #twitter :<msg>
Privmsg(msg) ==
    /\ Len(updating) < MaxUpdates
    /\ Becomes(messageReceived(World, msg))

\* PRIVMSG #twitter :\x01ACTION <arg>\x01
CtcpAction(arg) ==
    /\ Len(updating) < MaxUpdates
    /\ Becomes(ctcp_ACTION(World, arg))

UpdateDone(i) ==
    /\ i \in 1..Len(updating)
    /\ Becomes(update_done([World EXCEPT !.updating = RemoveAt(@, i)], updating[i]))

UpdateFailed(i, e) ==
    /\ i \in 1..Len(updating)
    /\ Becomes(update_error([World EXCEPT !.updating = RemoveAt(@, i)], updating[i], e))

\* time passes: long enough for the latest entries to be retweeted
Clock ==
    /\ now + MIN_LATEST_POST_AGE <= MaxNow
    /\ Becomes([World EXCEPT !.now = @ + MIN_LATEST_POST_AGE])

NextPost ==
    \/ \E e \in FreshEntries : GotEntry(e)
    \/ \E msg \in ChannelMessages : Privmsg(msg)
    \/ \E arg \in ActionTexts : CtcpAction(arg)
    \/ \E i \in 1..MaxUpdates : UpdateDone(i)
    \/ \E i \in 1..MaxUpdates, e \in {f \in Failures : f.status = ""} :
          UpdateFailed(i, e)
    \/ Clock

SpecPost == InitChan /\ [][NextPost]_vars

\* ------------------------------------------------------------------------
\* Replies (ircd.py:700-731)
\* ------------------------------------------------------------------------
\* the nick a text addresses: the name in a leading `@name` followed by one
\* of `:`, `,` and space, or in a leading `name:` or `name,`; <<>> when the
\* text has none of these forms (a bare `name ` included)
Addressed(text) ==
    LET forms == {n \in 1..Len(text) :
                     \/ /\ text[1] = "@" /\ n > 1
                        /\ \A i \in 2..n : text[i] \in NameChars
                        /\ Len(text) > n /\ text[n + 1] \in {":", ",", " "}
                     \/ /\ \A i \in 1..n : text[i] \in NameChars
                        /\ Len(text) > n /\ text[n + 1] \in {":", ","}}
    IN  IF forms = {} THEN <<>>
        ELSE LET n == CHOOSE n \in forms : TRUE
             IN  IF text[1] = "@" THEN SubSeq(text, 2, n) ELSE SubSeq(text, 1, n)

\* the Twitter ids the cache knows under a nick, in any case
KnownAs(name) ==
    {id \in TwitterIds :
        /\ twitter_users[id] # <<>>
        /\ Lower(twitter_users[id][1].screen_name) = Lower(name)}

WithAt(text) == IF text[1] = "@" THEN text ELSE <<"@">> \o text

IsPostCall(ev) == ev.op = "send_twitter_post"

IsChanPost(ev) == ev.op = "chan_send_twitter_post"

\* the step handed trace'[i] to the channel for posting, which made the
\* call trace'[i + 1] of PasserdProtocol.send_twitter_post
ChanPost(i) == i < Len(trace') /\ IsChanPost(trace'[i]) /\ IsPostCall(trace'[i + 1])

PlainMessage ==
    /\ trace' # <<>> /\ trace'[1].op = "messageReceived"
    /\ Head(trace'[1].msg) # "!"

IsCommandWord(msg) == _command_fn(split_args(msg).cmd) # ""

Hint == [cmd |-> "PRIVMSG", from |-> passerd_bot, params |-> <<TheChannel, ICantHearYou>>]

\* C25: with careful mode on, a channel message that does not start with `!`
\* leads to an API update only if its first word is a command of the
\* channel's dialog, and one that is not gets the hint as the only message,
\* with no update; with careful mode off the message is handed to the
\* channel for posting as it is.
ThmC25 ==
    [][PlainMessage =>
          LET msg == trace'[1].msg
          IN  /\ user_cfg.careful =>
                    /\ posted' # <<>> => IsCommandWord(msg)
                    /\ ~IsCommandWord(msg) => sent' = <<Hint>> /\ posted' = <<>>
              /\ ~user_cfg.careful =>
                    /\ Len(trace') = 3 /\ ChanPost(2) /\ trace'[2].msg = msg
                    /\ Len(trace'[3].msg) <= LENGTH_LIMIT =>
                          posted' = <<[status |-> trace'[3].msg,
                                       params |-> trace'[3].args]>> ]_vars

\* in careful mode `hi` got the hint and nothing was posted
WitC25 ==
    /\ user_cfg.careful
    /\ trace = <<[op |-> "messageReceived", msg |-> Hi]>>
    /\ sent = <<Hint>> /\ posted = <<>>

\* ------------------------------------------------------------------------
\* The length limit (ircd.py:683-698, 1121-1143, 1966-1971)
\* ------------------------------------------------------------------------
TooLong(ev) == IsPostCall(ev) /\ Len(ev.msg) > LENGTH_LIMIT

CannotSend(text) ==
    [cmd |-> ERR_CANNOTSENDTOCHAN, to |-> nick,
     params |-> <<TheChannel, MessageTooLong(Len(text))>>]

\* C26 as stated: whichever way it is posted, a text over the limit after
\* the reply prefix leads to no update call and to ERR_CANNOTSENDTOCHAN.
CexC26 ==
    [][\A i \in 1..Len(trace') : TooLong(trace'[i]) =>
          /\ posted' = <<>> /\ updating' = updating
          /\ CannotSend(trace'[i].msg) \in Range(sent') ]_vars

\* C26: whichever way it is posted, a text over the limit after the reply
\* prefix leads to no update call; a plain message and a CTCP ACTION are
\* answered with ERR_CANNOTSENDTOCHAN, the post command with the bot's
\* `Error while posting: message too long (N characters)`.
ThmC26 ==
    [][\A i \in 1..Len(trace') : TooLong(trace'[i]) =>
          /\ posted' = <<>> /\ updating' = updating
          /\ trace'[i].origin = "channel" =>
                sent' = <<CannotSend(trace'[i].msg)>>
          /\ trace'[i].origin = "command" =>
                sent' = <<[cmd |-> "PRIVMSG", from |-> passerd_bot,
                           params |-> <<TheChannel,
                               <<"Error while posting: ">>
                                   \o MessageTooLong(Len(trace'[i].msg))>>]>> ]_vars

\* a reply of LENGTH_LIMIT characters passed the limit when `@` was
\* prepended, and was refused with ERR_CANNOTSENDTOCHAN
WitC26 ==
    /\ Len(trace) = 3 /\ TooLong(trace[3])
    /\ Len(trace[1].msg) = LENGTH_LIMIT
    /\ Len(trace[3].msg) = LENGTH_LIMIT + 1
    /\ sent = <<CannotSend(trace[3].msg)>>
    /\ posted = <<>>

\* ------------------------------------------------------------------------
\* Dialog (dialogs.py:3-52), driven as tests/dialogs.py drives it: the
\* message function appends to a list
\* ------------------------------------------------------------------------
\* every variable of the session but trace
session_vars == <<sched_vars, feed_vars, proto_vars, reg_vars, hist_vars, throttler_vars,
                  cache_vars, chan_vars, posted, reactions,
                  emitted, exc, exc_args, called, sent, skipped>>

\* a compiled pattern of the kind the dialogs wait for: a literal, searched
\* for anywhere in the text or anchored by ^ and $, compiled with re.I
Regexp(bol, lit, eol) == [bol |-> bol, lit |-> lit, eol |-> eol]

\* expr.search(s) found a match
search(expr, s) ==
    \E i \in 1..(Len(s) - Len(expr.lit) + 1) :
        /\ Lower(SubSeq(s, i, i + Len(expr.lit) - 1)) = Lower(expr.lit)
        /\ expr.bol => i = 1
        /\ expr.eol => i + Len(expr.lit) - 1 = Len(s)

\* str.strip()
strip(s) ==
    LET inner == {i \in 1..Len(s) : s[i] # " "}
    IN  IF inner = {} THEN <<>> ELSE SubSeq(s, MinOf(inner), MaxOf(inner))

\* a Dialog with its DialogLogger: exc is the exception the last handler
\* raised, <<>> when none
Dialog == [patterns |-> patterns, msgs |-> <<>>, trace |-> <<>>, exc |-> <<>>]

message(d, msg) == [d EXCEPT !.msgs = Append(@, msg)]

\* a variant that puts the new pattern after the ones registered before
wait_for_append(d, regexp, func, filter) ==
    [d EXCEPT !.patterns = Append(@, [filter |-> filter, expr |-> regexp, func |-> func])]

wait_for(d, regexp, func, filter) ==
    [d EXCEPT !.patterns = <<[filter |-> filter, expr |-> regexp, func |-> func]>> \o @]

unknown_message(d, msg) ==
    message([d EXCEPT !.trace = Append(@, [op |-> "unknown_message", msg |-> msg])],
            <<"Sorry, I don't know what you mean">>)

error_reply(d, msg, e) == message(d, <<"An error has occurred. Sorry. -- ">> \o e)

\* the handlers of the tests: one says its replies, one raises
RECURSIVE say(_, _)
say(d, replies) ==
    IF replies = <<>> THEN d ELSE say(message(d, Head(replies)), Tail(replies))

func(d, f, msg) ==
    LET d1 == [d EXCEPT !.trace = Append(@, [op |-> "func", func |-> f, msg |-> msg])]
    IN  IF f.raises # <<>> THEN [d1 EXCEPT !.exc = f.raises \o msg \o <<"]">>]
        ELSE say(d1, f.replies)

\* the loop of recv_message from pattern i on
RECURSIVE recv_message_from(_, _, _)
recv_message_from(d, msg, i) ==
    IF i > Len(d.patterns) THEN unknown_message(d, msg)
    ELSE LET p == d.patterns[i]
             text == IF p.filter THEN strip(msg) ELSE msg
         IN  IF search(p.expr, text)
             THEN LET d1 == func(d, p.func, msg)
                  IN  IF d1.exc # <<>> THEN error_reply([d1 EXCEPT !.exc = <<>>], msg, d1.exc)
                      ELSE d1
             ELSE recv_message_from(d, msg, i + 1)

recv_message(d, msg) == recv_message_from(d, msg, 1)

MaxPatterns == 3

Replies(replies) == [replies |-> replies, raises |-> <<>>]
Raises(text) == [replies |-> <<>>, raises |-> text]

Text_hi == <<"h", "i">>
Text_hi1 == <<"h", "i", "1">>

\* the registrations of testMulti, testOverride and testException, and an
\* anchored pattern waited for without stripping
WaitFors ==
    {[regexp |-> Regexp(FALSE, Text_hi, FALSE), func |-> Replies(<<<<"first hi">>>>), strip |-> TRUE],
     [regexp |-> Regexp(FALSE, Text_hi1, FALSE), func |-> Replies(<<<<"hi1 reply">>>>), strip |-> TRUE],
     [regexp |-> Regexp(FALSE, Text_hi, FALSE), func |-> Replies(<<<<"second hi">>>>), strip |-> TRUE],
     [regexp |-> Regexp(TRUE, Text_hi, TRUE),
      func |-> Replies(<<<<"hi!">>, <<"how are you?">>>>), strip |-> FALSE],
     [regexp |-> Regexp(FALSE, <<"e", "x", "p", "l", "o", "d", "e">>, FALSE),
      func |-> Raises(<<"[error: ">>), strip |-> TRUE]}

DialogMessages ==
    {Text_hi, Text_hi1, <<" ", "h", "i", " ">>, <<"H", "I", "!">>, <<"b", "y", "e">>,
     <<"e", "x", "p", "l", "o", "d", "e">>}

WaitFor(r) ==
    /\ Len(patterns) < MaxPatterns
    /\ LET d == wait_for(Dialog, r.regexp, r.func, r.strip)
       IN  patterns' = d.patterns /\ log_msgs' = d.msgs /\ trace' = d.trace
    /\ registered' = Append(registered, [filter |-> r.strip, expr |-> r.regexp, func |-> r.func])
    /\ UNCHANGED <<session_vars, cmd_dialog, setup>>

RecvMessage(msg) ==
    /\ LET d == recv_message(Dialog, msg)
       IN  /\ patterns' = d.patterns /\ log_msgs' = d.msgs
           /\ trace' = <<[op |-> "recv_message", msg |-> msg]>> \o d.trace
    /\ UNCHANGED <<session_vars, cmd_dialog, registered, setup>>

NextDialog ==
    \/ \E r \in WaitFors : WaitFor(r)
    \/ \E msg \in DialogMessages : RecvMessage(msg)

SpecDialog == Init /\ [][NextDialog]_vars

\* the registered pattern matches the message
Matches(p, msg) == search(p.expr, IF p.filter THEN strip(msg) ELSE msg)

Heard == trace # <<>> /\ trace[1].op = "recv_message"

HandlerCalls == SelectSeq(trace, LAMBDA ev : ev.op = "func")

UnknownCalls == SelectSeq(trace, LAMBDA ev : ev.op = "unknown_message")

\* the registrations, in order, that match the message just received
Hits == {i \in 1..Len(registered) : Matches(registered[i], trace[1].msg)}

\* C28: recv_message calls at most one handler per message: when one or more
\* registered patterns match, the handler of the most recently registered of
\* them is called, once, with the message, and no other; unknown_message is
\* called, once, exactly when no pattern matches; no registration is ever
\* dropped from the dialog.
ThmC28 ==
    /\ Len(patterns) = Len(registered)
    /\ \A i \in 1..Len(registered) : \E j \in 1..Len(patterns) : patterns[j] = registered[i]
    /\ Heard =>
        /\ Len(HandlerCalls) = (IF Hits = {} THEN 0 ELSE 1)
        /\ Hits # {} => /\ HandlerCalls[1].func = registered[MaxOf(Hits)].func
                        /\ HandlerCalls[1].msg = trace[1].msg
        /\ Len(UnknownCalls) = (IF Hits = {} THEN 1 ELSE 0)

\* a message matched by two registrations with different handlers was
\* answered by the later one alone
WitC28 ==
    /\ Heard
    /\ \E i, j \in Hits : i < j /\ registered[i].func # registered[j].func
    /\ Len(HandlerCalls) = 1
    /\ HandlerCalls[1].func = registered[MaxOf(Hits)].func
    /\ log_msgs = HandlerCalls[1].func.replies

\* ------------------------------------------------------------------------
\* CommandDialog (dialogs.py:55-259): commands, aliases and the help
\* command, for the dialog classes _TestCommands (tests/dialogs.py:90-93)
\* and PasserdCommands (ircd.py:1058-1164)
\* ------------------------------------------------------------------------
CMD_IMP_COMMON == 2
CMD_IMP_INTERESTING == 5
CMD_IMP_UNIMPORTANT == 6
CMD_IMP_ADVANCED == 8
CMD_IMP_DEBUGGING == 8
CMD_IMP_ALIAS == 7
CMD_IMP_DEFAULT == CMD_IMP_INTERESTING

LowerCase ==
    <<"a", "b", "c", "d", "e", "f", "g", "h", "i", "j", "k", "l", "m",
      "n", "o", "p", "q", "r", "s", "t", "u", "v", "w", "x", "y", "z">>

UpperCase ==
    <<"A", "B", "C", "D", "E", "F", "G", "H", "I", "J", "K", "L", "M",
      "N", "O", "P", "Q", "R", "S", "T", "U", "V", "W", "X", "Y", "Z">>

\* str.upper()
upper(c) ==
    IF \E i \in 1..26 : LowerCase[i] = c
    THEN UpperCase[CHOOSE i \in 1..26 : LowerCase[i] = c] ELSE c

Upper(s) == [i \in 1..Len(s) |-> upper(s[i])]

\* the order of the characters of a topic name: `?` sorts before the letters
ord(c) == IF \E i \in 1..26 : LowerCase[i] = c
          THEN 96 + (CHOOSE i \in 1..26 : LowerCase[i] = c) ELSE 63

\* cmp of two strings < 0
RECURSIVE str_lt(_, _)
str_lt(a, b) ==
    IF b = <<>> THEN FALSE
    ELSE IF a = <<>> THEN TRUE
    ELSE IF Head(a) = Head(b) THEN str_lt(Tail(a), Tail(b))
    ELSE ord(Head(a)) < ord(Head(b))

\* list.sort() of a list of (importance, topic) pairs
RECURSIVE sort(_)
sort(S) ==
    IF S = {} THEN <<>>
    ELSE LET m == CHOOSE x \in S : \A y \in S \ {x} :
                      x[1] < y[1] \/ (x[1] = y[1] /\ str_lt(x[2], y[2]))
         IN  <<m>> \o sort(S \ {m})

Name_hi == <<"h", "i">>
Name_help == <<"h", "e", "l", "p">>
Name_hello == <<"h", "e", "l", "l", "o">>
Name_howdy == <<"h", "o", "w", "d", "y">>
Name_nope == <<"n", "o", "p", "e">>
Name_post == <<"p", "o", "s", "t">>
Name_tw == <<"t", "w">>
Name_gc == <<"g", "c">>
Name_rt == <<"r", "t">>
Name_login == <<"l", "o", "g", "i", "n">>
Name_rate == <<"r", "a", "t", "e">>
Name_recent == <<"r", "e", "c", "e", "n", "t">>
Name_config == <<"c", "o", "n", "f", "i", "g">>
Name_be == <<"b", "e">>

\* a bound method command_<name>, and None
Method(name) == <<"command_">> \o name
NoFn == <<>>

\* the class of a dialog: its command_ and help_ methods, its shorthelp_ and
\* importance_ attributes, its help_header
Klass(k) ==
    IF k = "_TestCommands"
    THEN [methods |-> {Name_hi, Name_help}, help_methods |-> {Name_help},
          shorthelp |-> (Name_hi :> <<"say hi">>),
          importance |-> <<>>]
    ELSE [methods |-> {Name_login, Name_gc, Name_rate, Name_post, Name_recent, Name_rt,
                       Name_help},
          help_methods |-> {Name_login, Name_post, Name_rt, Name_help},
          shorthelp |-> (Name_help :> <<"Show help">>)
                     @@ (Name_login :> <<"Log into Passerd/Twitter">>)
                     @@ (Name_gc :> <<"Run Python garbage collection (debugging/testing command)">>)
                     @@ (Name_rate :> <<"Show Twitter API rate-limit info">>)
                     @@ (Name_post :> <<"Post an update to Twitter">>)
                     @@ (Name_recent :> <<"Debug the recent-post matching code">>)
                     @@ (Name_rt :> <<"Retweet a post">>),
          importance |-> (Name_help :> CMD_IMP_UNIMPORTANT)
                      @@ (Name_gc :> CMD_IMP_DEBUGGING) @@ (Name_rate :> CMD_IMP_ADVANCED)
                      @@ (Name_recent :> CMD_IMP_DEBUGGING) @@ (Name_rt :> CMD_IMP_COMMON)]

dlg_message(d, msg) == [d EXCEPT !.msgs = Append(@, msg)]

add_command(d, cmd, fn) == [d EXCEPT !.commands = (Lower(cmd) :> fn) @@ @]

\* CommandDialog._command_fn on a dialog object
dlg_command_fn(d, cmd) ==
    IF Lower(cmd) \in d.methods THEN Method(Lower(cmd))
    ELSE IF Lower(cmd) \in DOMAIN d.commands THEN d.commands[Lower(cmd)]
    ELSE NoFn

\* <<>> for None
_short_help(d, cmd) ==
    IF Lower(cmd) \in DOMAIN d.shorthelp THEN d.shorthelp[Lower(cmd)] ELSE <<>>

\* the text is 'Synonym to `cmd`: sh', with backquotes where this has quotes
add_alias(d, alias, cmd, imp) ==
    LET d1 == add_command(d, alias, dlg_command_fn(d, cmd))
        sh == _short_help(d, cmd)
    IN  IF sh # <<>>
        THEN [d1 EXCEPT !.shorthelp = (Lower(alias) :> (<<"Synonym to '">> \o cmd \o <<"': ">> \o sh)) @@ @,
                        !.importance = (Lower(alias) :> imp) @@ @]
        ELSE d1

\* short_help is the text given, or the subdialog's help header
add_subdialog(d, cmd, short_help) ==
    LET d1 == add_command(d, cmd, <<"handle_cmd ">> \o cmd)
        d2 == [d1 EXCEPT !.help_methods = @ \cup {Lower(cmd)}]
    IN  IF short_help # <<>>
        THEN [d2 EXCEPT !.shorthelp = (Lower(cmd) :> short_help) @@ @]
        ELSE d2

dialog_init(d) ==
    IF d.klass = "PasserdCommands"
    THEN LET d1 == add_subdialog(d, Name_config, <<"Query and change config settings">>)
             d2 == add_subdialog(d1, Name_be, <<"Shortcut for many common config settings">>)
             d3 == add_alias(d2, <<"s">>, Name_post, CMD_IMP_ALIAS)
             d4 == add_alias(d3, <<"t", "w", "i", "t">>, Name_post, CMD_IMP_ALIAS)
             d5 == add_alias(d4, Name_tw, Name_post, CMD_IMP_ALIAS)
         IN  add_alias(d5, <<"u", "p", "d", "a", "t", "e">>, Name_post, CMD_IMP_ALIAS)
    ELSE d

\* CommandDialog.__init__
CommandDialog(k) ==
    LET d == [klass |-> k, methods |-> Klass(k).methods,
              help_methods |-> Klass(k).help_methods,
              shorthelp |-> Klass(k).shorthelp, importance |-> Klass(k).importance,
              commands |-> <<>>, cmd_prefix |-> <<>>,
              msgs |-> <<>>, trace |-> <<>>, exc |-> ""]
    IN  add_alias(dialog_init(d), <<"?">>, Name_help, CMD_IMP_ALIAS)

set_cmd_prefix(d, prefix) == [d EXCEPT !.cmd_prefix = prefix]

dlg_unknown_command(d, cmd, args) ==
    dlg_message(d, <<"Sorry, I don't get it. Type '">> \o d.cmd_prefix
                   \o <<"HELP' for available commands">>)

\* <<>> for None
short_help(d, cmd) ==
    LET sh == _short_help(d, cmd)
    IN  IF sh = <<>> THEN <<>>
        ELSE (IF dlg_command_fn(d, cmd) # NoFn THEN d.cmd_prefix ELSE <<>>)
             \o Upper(cmd) \o <<" - ">> \o sh

cmd_syntax(d, cmd, args) ==
    dlg_message(d, <<"Usage: ">> \o d.cmd_prefix \o Upper(cmd)
                   \o (IF args # <<>> THEN <<" ">> \o args ELSE <<>>))

help_help(d, args) == cmd_syntax(d, Name_help, <<"command-or-topic">>)

_long_help(d, cmd, args) ==
    IF Lower(cmd) \in d.help_methods
    THEN CASE Lower(cmd) = Name_help -> help_help(d, args)
    ELSE IF short_help(d, cmd) # <<>> THEN dlg_message(d, short_help(d, cmd))
    ELSE dlg_message(d, <<"Unknown help topic: ">> \o cmd)

_topic_importance(d, topic) ==
    IF Lower(topic) \in DOMAIN d.importance THEN d.importance[Lower(topic)]
    ELSE CMD_IMP_DEFAULT

help_topics(d) == sort({<<_topic_importance(d, topic), topic>> : topic \in DOMAIN d.shorthelp})

\* self.message(self.short_help(c)) for every c of a list
RECURSIVE short_helps(_, _)
short_helps(d, cs) ==
    IF cs = <<>> THEN d
    ELSE short_helps(dlg_message(d, short_help(d, Head(cs)[2])), Tail(cs))

\* ' '.join of the prefixed, upper-cased names
RECURSIVE clist(_, _)
clist(pref, rest) ==
    IF rest = <<>> THEN <<>>
    ELSE pref \o Upper(Head(rest)[2])
         \o (IF Len(rest) > 1 THEN <<" ">> ELSE <<>>) \o clist(pref, Tail(rest))

show_help(d0, prefix, args) ==
    LET d == [d0 EXCEPT !.trace = Append(@, [op |-> "show_help", args |-> args])]
    IN
    IF args # <<>> THEN _long_help(d, split_args(args).cmd, split_args(args).args)
    ELSE
    LET ts == help_topics(d)
        commands == SelectSeq(ts, LAMBDA it : dlg_command_fn(d, it[2]) # NoFn)
        topics == SelectSeq(ts, LAMBDA it : dlg_command_fn(d, it[2]) = NoFn)
        main == SelectSeq(commands, LAMBDA it : it[1] <= CMD_IMP_INTERESTING)
        rest == SelectSeq(commands, LAMBDA it : ~(it[1] <= CMD_IMP_INTERESTING))
        d1 == IF main # <<>>
              THEN short_helps(dlg_message(d, prefix \o <<"Available commands:">>), main)
              ELSE d
        d2 == IF rest # <<>>
              THEN dlg_message(d1, (IF main # <<>> THEN <<"Other commands">>
                                    ELSE <<"Available commands">>)
                                   \o <<": ">> \o clist(d.cmd_prefix, rest))
              ELSE d1
    IN  \* 'Other help topics:' % (prefix): a format with no conversion
        IF topics # <<>> THEN [d2 EXCEPT !.exc = "TypeError"] ELSE d2

command_help(d, args) == show_help(d, <<>>, args)

\* _TestCommands.command_hi; a None argument prints as None
command_hi(d, args) ==
    dlg_message(d, <<"hi ">> \o (IF args = <<>> THEN <<"None">> ELSE args) \o <<"!">>)

\* CommandDialog.recv_message: try_msg, and unknown_command when the first
\* word is no command
dlg_recv_message(d, msg) ==
    LET a == split_args(msg)
        fn == dlg_command_fn(d, a.cmd)
    IN  CASE fn = NoFn -> dlg_unknown_command(d, a.cmd, a.args)
          [] fn = Method(Name_help) -> command_help(d, a.args)
          [] fn = Method(Name_hi) -> command_hi(d, a.args)

MaxAliases == 1

Klasses == {"_TestCommands", "PasserdCommands"}

AliasNames == {Name_hello, Name_howdy}

AliasTargets == {Name_hi, Name_help, Name_nope}

Prefixes == {<<>>, <<"!">>, <<"!FOO-">>}

HelpMessages ==
    {Name_help, <<"?">>, Name_help \o <<" ">> \o Name_hello, Name_help \o <<" ">> \o Name_tw,
     Name_help \o <<" ">> \o Name_help, Name_hello \o <<" ", "w", "o", "r", "l", "d">>,
     Name_hi \o <<" ", "y", "o", "u">>, Name_nope}

\* the dialog before a call: what the last call said is not kept
TheDialog == [cmd_dialog EXCEPT !.msgs = <<>>, !.trace = <<>>, !.exc = ""]

Said(d) ==
    /\ cmd_dialog' = d /\ log_msgs' = d.msgs /\ trace' = d.trace
    /\ UNCHANGED <<session_vars, patterns, registered, setup>>

AddAlias(alias, cmd) ==
    /\ Cardinality(DOMAIN cmd_dialog.commands \cap AliasNames) < MaxAliases
    /\ alias \notin DOMAIN cmd_dialog.commands
    /\ Said(add_alias(TheDialog, alias, cmd, CMD_IMP_ALIAS))

SetCmdPrefix(prefix) ==
    /\ prefix # cmd_dialog.cmd_prefix
    /\ Said(set_cmd_prefix(TheDialog, prefix))

DlgRecvMessage(msg) == Said(dlg_recv_message(TheDialog, msg))

InitHelp ==
    /\ Authenticated
    /\ callbacks = 0 /\ _watched_ids = <<>> /\ reactions = Unrecorded
    /\ cmd_dialog \in {CommandDialog(k) : k \in Klasses}

NextHelp ==
    \/ \E alias \in AliasNames, cmd \in AliasTargets : AddAlias(alias, cmd)
    \/ \E prefix \in Prefixes : SetCmdPrefix(prefix)
    \/ \E msg \in HelpMessages : DlgRecvMessage(msg)

SpecHelp == InitHelp /\ [][NextHelp]_vars

\* help was asked with no argument
HelpShown == trace # <<>> /\ trace[1].op = "show_help" /\ trace[1].args = <<>>

\* the commands and aliases of the dialog: the names a message can start with
RegisteredCommands ==
    {c \in cmd_dialog.methods \cup DOMAIN cmd_dialog.commands :
        dlg_command_fn(cmd_dialog, c) # NoFn}

\* the line `<prefix><NAME> - <short help>` of a command
HelpLine(c) == cmd_dialog.cmd_prefix \o Upper(c) \o <<" - ">> \o cmd_dialog.shorthelp[c]

\* C29 as stated: help with no argument lists every command and every alias
\* that has a short-help text as `<prefix><NAME> - <short help>`.
CexC29 ==
    HelpShown =>
        \A c \in RegisteredCommands :
            c \in DOMAIN cmd_dialog.shorthelp =>
                \E i \in 1..Len(log_msgs) : log_msgs[i] = HelpLine(c)

\* ------------------------------------------------------------------------
\* send_text on its own (ircd.py:1475-1498), as tests/formatting.py calls it
\* ------------------------------------------------------------------------
MaxLen == 3

TextChars == {"a", " ", CR, LF}

\* every text of up to MaxLen characters, and texts whose entities decode to
\* a line break or to a plain character
Texts ==
    UNION {[1..n -> TextChars] : n \in 0..MaxLen}
    \cup {<<"a", "&", "#", "1", "0", ";", "b">>, <<"&", "l", "t", ";", "b">>}

SendText(text) ==
    Becomes([send_text(World, AL, TheChannel, text)
                EXCEPT !.trace = <<[op |-> "send_text", text |-> text]>>])

NextText ==
    \/ \E text \in Texts : SendText(text)
    \/ \E value \in {"on", "off"} : ConfigSet("multiline", value)

SpecText == InitChan /\ [][NextText]_vars

\* send_text was called; the text as it reads once its entities are decoded
TextSent == trace # <<>> /\ trace[1].op = "send_text"

Decoded == full_entity_decode(trace[1].text)

IsBreak(c) == c \in {CR, LF}

\* the payloads of the PRIVMSGs written
Payloads == [i \in 1..Len(sent) |-> sent[i].params[2]]

\* the non-empty lines of a text, in order: where each starts and ends
LineStarts(text) ==
    {i \in 1..Len(text) : ~IsBreak(text[i]) /\ (i = 1 \/ IsBreak(text[i - 1]))}

LineEnd(text, i) ==
    MinOf({j \in i..Len(text) : j = Len(text) \/ IsBreak(text[j + 1])})

\* the k-th non-empty line
NthLine(text, k) ==
    LET i == CHOOSE i \in LineStarts(text) :
                 Cardinality({j \in LineStarts(text) : j <= i}) = k
    IN  SubSeq(text, i, LineEnd(text, i))

AllPrivmsgs ==
    \A i \in 1..Len(sent) :
        /\ sent[i].cmd = "PRIVMSG" /\ sent[i].from = AL
        /\ sent[i].params[1] = TheChannel

\* with multiline off: one PRIVMSG, the text with a space for every line break
OneLine ==
    /\ Len(sent) = 1
    /\ Len(Payloads[1]) = Len(Decoded)
    /\ \A i \in 1..Len(Decoded) :
          Payloads[1][i] = IF IsBreak(Decoded[i]) THEN " " ELSE Decoded[i]

\* with multiline on: one PRIVMSG per non-empty line
LineByLine ==
    /\ Len(sent) = Cardinality(LineStarts(Decoded))
    /\ \A k \in 1..Len(sent) :
          Payloads[k] = (IF k = 1 THEN <<>> ELSE <<"[...] ">>) \o NthLine(Decoded, k)

NoBreak == \A i \in 1..Len(Decoded) : ~IsBreak(Decoded[i])

\* C31 as stated: a text without line breaks yields the same single PRIVMSG
\* in both modes.
CexC31 == TextSent /\ NoBreak => Payloads = <<Decoded>>

\* C31: send_text with multiline off sends exactly one PRIVMSG, the text with
\* every line break replaced by one space; with multiline on it sends one
\* PRIVMSG per non-empty line, in order, the first as it is and each later
\* one prefixed with `[...] `; a non-empty text without line breaks yields
\* the same single PRIVMSG, the text itself, in both modes.
ThmC31 ==
    TextSent =>
        /\ AllPrivmsgs
        /\ IF user_cfg.multiline THEN LineByLine ELSE OneLine
        /\ NoBreak /\ Decoded # <<>> => Payloads = <<Decoded>>

\* a text of two lines was sent in multiline mode as two PRIVMSGs
WitC31 ==
    /\ TextSent /\ user_cfg.multiline
    /\ trace[1].text = <<"a", CR, "a">>
    /\ Payloads = <<<<"a">>, <<"[...] ", "a">>>>

\* ------------------------------------------------------------------------
\* A refresh of the home timeline completing, as its subscribers see it:
\* TwitterChannel.__init__ (ircd.py:461-463) subscribes refresh_error to the
\* feed's error callbacks, which ErrorThrottler feeds through report_error.
\* ------------------------------------------------------------------------
\* consecutive failures of a feed in one run: enough to mute its throttler
MaxRateErrors == 3

\* the values a failed request carries: twisted.web.error.Error of a
\* response 400 or 503, and another exception
RefreshErrors == {"400 Bad Request", "503 Service Unavailable", "ouch"}

\* e.value.status
status(e) ==
    IF e = "400 Bad Request" THEN "400"
    ELSE IF e = "503 Service Unavailable" THEN "503" ELSE ""

\* api.rate_limit_remaining after the response: no header, none left, some left
Remainings == {None, 0, 5}

\* TwitterChannel.refresh_error(x) as it is subscribed: e.check is a method
\* of twisted's Failure; an exception value or a ThrottlerMessage has none
subscribed_refresh_error(w, x, remaining) ==
    IF x.kind = "Failure"
    THEN chan_refresh_error(w, Failure(status(x.msg), <<x.msg>>), remaining)
    ELSE [w EXCEPT !.exc = "AttributeError"]

\* report_error -> errbacks.callback(x): CallbackList.callback catches what
\* the subscriber raises (ignore_exceptions) and prints it
report_error(w, x, remaining) ==
    LET w1 == subscribed_refresh_error(w, x, remaining)
    IN  [w1 EXCEPT !.exc = "",
                   !.trace = Append(@, [op |-> "errbacks.callback", arg |-> x.kind,
                                        raised |-> w1.exc])]

RECURSIVE report_errors(_, _, _)
report_errors(w, out, remaining) ==
    IF out = <<>> THEN w
    ELSE report_errors(report_error(w, Head(out), remaining), Tail(out), remaining)

\* the refresh request inflight[i] fails with e, the response leaving
\* api.rate_limit_remaining at remaining
RefreshFailed(i, e, remaining) ==
    /\ i \in 1..Len(inflight)
    /\ inflight[i].kind = "refresh"
    /\ _error_handler[inflight[i].feed].any_err_count < MaxRateErrors
    /\ LET f == inflight[i].feed
           w1 == [World EXCEPT !.inflight = RemoveAt(@, i),
                               !.trace = <<[op |-> "refresh.error", e |-> e,
                                            remaining |-> remaining,
                                            stopped |-> _error_handler[f].stopped,
                                            any_err_count |-> _error_handler[f].any_err_count]>>]
           w2 == refresh_error(w1, f, e)
       IN  Becomes(refresh_done(report_errors(w2, w2.emitted, remaining), f))

\* the refresh request inflight[i] succeeds
RefreshFinished(i) ==
    /\ i \in 1..Len(inflight)
    /\ inflight[i].kind = "refresh"
    /\ LET req == inflight[i]
           w1 == [World EXCEPT !.inflight = RemoveAt(@, i),
                               !.trace = <<[op |-> "refresh.done"]>>]
           w2 == report_errors(w1, ok(w1._error_handler[req.feed]).out, None)
           w3 == finished(w2, req.feed, Collect(Response(World, req), <<>>))
       IN  Becomes(refresh_done(w3, req.feed))

InitRefresh ==
    /\ Authenticated
    /\ callbacks = 0 /\ _watched_ids = <<>> /\ cmd_dialog = None
    /\ reactions = <<>>

NextRefresh ==
    \/ StartRefreshing("home")
    \/ StopRefreshing("home")
    \/ Post("home")
    \/ \E i \in 1..Len(inflight) : RefreshFinished(i)
    \/ \E i \in 1..Len(inflight), e \in RefreshErrors, remaining \in Remainings :
          RefreshFailed(i, e, remaining)
    \/ Start
    \/ Tick
    \/ Advance(REFRESH_DELAY)

SpecRefresh == InitRefresh /\ [][NextRefresh]_vars

\* this step was a refresh failing / succeeding
Failed == trace # <<>> /\ trace[1].op = "refresh.error"
Finished == trace # <<>> /\ trace[1].op = "refresh.done"

\* the failure was the exhaustion of the rate limit
RateLimitExhausted ==
    Failed /\ status(trace[1].e) = "400" /\ trace[1].remaining = 0

\* C32 as stated: every refresh failure that is the exhaustion of the rate
\* limit (HTTP 400 with rate_limit_remaining = 0) has
\* scheduler.wait_rate_limit() invoked, whatever the state of the feed's
\* error throttler.
CexC32 == RateLimitExhausted => "scheduler.wait_rate_limit" \in Range(reactions)

\* what the code does with a failure: the subscriber is called with each
\* thing the throttler lets through, raises, and nothing else happens
SubscriberRaises ==
    Failed =>
        /\ "scheduler.wait_rate_limit" \notin Range(reactions)
        /\ sent = <<>>
        /\ \A k \in 2..Len(trace) :
              trace[k].op = "errbacks.callback" => trace[k].raised = "AttributeError"
        /\ Len(trace) = 1 + Len(emitted)

\* whether the handle was rescheduled at the end
Resched == IF updater["home"] THEN <<"updater.resched">> ELSE <<>>

\* the order of the code on a failure
RawFirst ==
    Failed => reactions = <<"raw_errbacks.callback", "_error_handler.error",
                            "loading = False">> \o Resched

\* C33 as stated: on a failed refresh the error goes to the error throttler
\* first, then to the raw error-backs, then the loading flag is cleared and
\* the handle rescheduled; on a successful refresh ok() is called before any
\* entry is dispatched and the reschedule happens last.
CexC33 ==
    /\ Failed => reactions = <<"_error_handler.error", "raw_errbacks.callback",
                               "loading = False">> \o Resched
    /\ Finished =>
          /\ reactions[1] = "_error_handler.ok"
          /\ \A k \in 2..Len(reactions) :
                reactions[k] = "entry_cb.callback" => k <= Len(reactions) - Len(Resched) - 1
          /\ SubSeq(reactions, Len(reactions) - Len(Resched), Len(reactions))
                = <<"loading = False">> \o Resched

\* the half of C33 about a success, which the code keeps
OkFirst ==
    Finished =>
        /\ reactions[1] = "_error_handler.ok"
        /\ \A k \in 2..(Len(reactions) - Len(Resched) - 1) :
              reactions[k] = "entry_cb.callback"
        /\ SubSeq(reactions, Len(reactions) - Len(Resched), Len(reactions))
              = <<"loading = False">> \o Resched

\* a rate-limit failure met a muted throttler; one met a fresh throttler;
\* a success dispatched entries and rescheduled
RateLimitedMuted == RateLimitExhausted /\ trace[1].stopped
RateLimitedFresh == RateLimitExhausted /\ trace[1].any_err_count = 0
DispatchedThenResched ==
    Finished /\ "entry_cb.callback" \in Range(reactions) /\ Resched # <<>>

\* ------------------------------------------------------------------------
\* NewUserDialog (ircd.py:1220-1341) on #new-user-setup, with the OAuth
\* consumers it creates (poauth.py:53-145) and the token probes it starts
\* ------------------------------------------------------------------------
\* patterns a setup dialog holds in one run, consumers it creates, and
\* requests of one kind it has in flight at a time
MaxWaits == 9
MaxConsumers == 2
MaxProbes == 1

\* one branch of a pattern: lit, after `^ *` if pre, before ` *$` if post
Alt(pre, lit, post) == [pre |-> pre, lit |-> lit, post |-> post]

Alts(alts) == [kind |-> "alts", alts |-> alts]

Word_y == <<"y">>
Word_yes == <<"y", "e", "s">>
Word_ok == <<"o", "k">>
Word_start == <<"s", "t", "a", "r", "t">>
Word_restart == <<"r", "e", "s", "t", "a", "r", "t">>
Word_n == <<"n">>
Word_no == <<"n", "o">>
Word_loc == <<"l", "o", "c">>
Word_twi == <<"t", "w", "i">>
Word_generate == <<"g", "e", "n", "e", "r", "a", "t", "e">>

\* r'^ *(y|yes|ok|start|restart) *$'
RE_start == Alts({Alt(TRUE, w, TRUE) : w \in {Word_y, Word_yes, Word_ok, Word_start, Word_restart}})
\* r'^ *n|no'
RE_no == Alts({Alt(TRUE, Word_n, FALSE), Alt(FALSE, Word_no, FALSE)})
\* '^ *y|yes'
RE_yes == Alts({Alt(TRUE, Word_y, FALSE), Alt(FALSE, Word_yes, FALSE)})
\* r'^ *loc|^ *1 *$'
RE_local == Alts({Alt(TRUE, Word_loc, FALSE), Alt(TRUE, <<"1">>, TRUE)})
\* r'^ *twi|^ *2 *$'
RE_twitter == Alts({Alt(TRUE, Word_twi, FALSE), Alt(TRUE, <<"2">>, TRUE)})
\* '^ *generate *$'
RE_generate == Alts({Alt(TRUE, Word_generate, TRUE)})
\* '[0-9][0-9][0-9]+'
RE_pin == [kind |-> "pin"]
\* '.*' and '.+'
RE_any == [kind |-> ".*"]
RE_some == [kind |-> ".+"]

alt_search(a, s) ==
    \E i \in 1..(Len(s) - Len(a.lit) + 1) :
        /\ Lower(SubSeq(s, i, i + Len(a.lit) - 1)) = a.lit
        /\ a.pre => \A k \in 1..(i - 1) : s[k] = " "
        /\ a.post => \A k \in (i + Len(a.lit))..Len(s) : s[k] = " "

\* where three digits in a row start
PinStarts(s) == {i \in 1..(Len(s) - 2) : \A k \in i..(i + 2) : s[k] \in Digits}

\* expr.search(s) found a match, for the patterns of this dialog
re_search(expr, s) ==
    CASE expr.kind = "alts" -> \E a \in expr.alts : alt_search(a, s)
      [] expr.kind = "pin" -> PinStarts(s) # {}
      [] expr.kind = ".*" -> TRUE
      [] expr.kind = ".+" -> s # <<>>

\* m.group(0) of the PIN pattern: the leftmost run of digits, to its end
pin_group(s) ==
    LET i == MinOf(PinStarts(s))
        stops == {k \in i..Len(s) : s[k] \notin Digits}
    IN  SubSeq(s, i, IF stops = {} THEN Len(s) ELSE MinOf(stops) - 1)

\* the dialog with its consumers and probes, as one value
NewUserDialog ==
    [patterns |-> patterns, msgs |-> <<>>, trace |-> <<>>,
     consumers |-> setup.consumers, probes |-> setup.probes,
     password |-> setup.password, twitter_user |-> setup.twitter_user]

\* a handler as the dialog holds it: the closure and what it closed over
Fn(name) == [name |-> name, consumer |-> 0, pw |-> <<>>]

\* an OAuthClient: its request for a request token in flight, its requests
\* for an access token in flight, whether the Deferred of get_oauth_token
\* has fired
OAuthClient == [req |-> FALSE, verifying |-> 0, called |-> FALSE]

bm(d, msg) == message(d, msg)

show_progress(d, msg) == bm(d, <<"oauth progress: ">> \o msg)

ask_restart(d) ==
    wait_for(bm(d, <<"Do you want to restart?">>), RE_yes, Fn("start"), TRUE)

welcome(d) ==
    LET d1 == say(d, <<<<"Welcome!">>,
                       <<"On this channel, we will set up an account for you.">>,
                       <<"We will use the OAuth authentication method on Twitter,">>,
                       <<"so you don't even need to give me your Twitter password.  :)">>,
                       <<"Please tell me when you are ready, and we'll start the process">>,
                       <<"Are you ready? (yes/no)">>>>)
        d2 == wait_for(d1, RE_start, Fn("start"), TRUE)
    IN  wait_for(d2, RE_no, Fn("no problem"), TRUE)

\* start: a new consumer, and get_oauth_token() on it
begin_start(d) ==
    LET d1 == say(d, <<<<"OK, let's do it:">>,
                       <<"(Note: at any moment, you can type 'restart', and the process will be restarted)">>>>)
        d2 == [d1 EXCEPT !.consumers = Append(@, [OAuthClient EXCEPT !.req = TRUE]),
                         !.trace = Append(@, [op |-> "get_oauth_token"])]
    IN  show_progress(d2, <<"getting a request token...">>)

error_get_token(d, e) ==
    ask_restart(bm(d, <<"Error while trying to get an OAuth token: ">> \o e))

show_url(d, c, url) ==
    LET d1 == say(d, <<<<"Now, go to: ">> \o url,
                       <<"After authorizing Passerd to access your account, you'll get a PIN">>,
                       <<"Please paste the PIN here">>>>)
    IN  wait_for(d1, RE_pin, [Fn("got_pin") EXCEPT !.consumer = c], TRUE)

\* got_pin, and consumer.got_verifier(pin) sending the verifier
got_pin(d, c, pin) ==
    LET d1 == say(d, <<<<"Got it. Thanks!">>, <<"PIN: '">> \o pin \o <<"'">>>>)
        d2 == show_progress(d1, <<"getting access token...">>)
    IN  [d2 EXCEPT !.consumers[c].verifying = @ + 1]

pin_error(d, e) ==
    ask_restart(bm(d, <<"The PIN didn't work. I got this error: ">> \o e))

pin_worked(d) ==
    LET d1 == say(d, <<<<"The PIN worked!">>,
                       <<"Now I will check if I can access your account...">>>>)
    IN  [d1 EXCEPT !.probes = @ + 1]

token_error(d, e) ==
    ask_restart(say(d, <<<<"The OAuth authentication didn't work. Sorry  :(">>,
                         <<"Error message: ">> \o e>>))

token_works(d, u) ==
    LET d1 == bm(d, <<"OAuth authentication worked!">>)
        d2 == [d1 EXCEPT !.trace = Append(@, [op |-> "force_nick", nick |-> u])]
        d3 == bm(d2, <<"Welcome to Passerd, ", u>>)
        d4 == [d3 EXCEPT !.trace = Append(@, [op |-> "set_user_token", u |-> u]),
                         !.twitter_user = <<u>>]
        d5 == say(d4, <<<<"Now Passerd can post to your account, but you still need to authenticate when connecting to Passerd">>,
                        <<"You have two authentication options:">>,
                        <<"1) Local password (recommended): Set a password just for Passerd, then you'll never need to reveal your Twitter password">>,
                        <<"2) Twitter password: Just use your Twitter password when connecting to Passerd">>,
                        <<"Which option do you want to use? (twitter/local)">>>>)
        d6 == wait_for(d5, RE_local, Fn("setup_password"), TRUE)
    IN  wait_for(d6, RE_twitter, Fn("all_set"), TRUE)

bye_twpass(d) ==
    say(d, <<<<"Just reconnect to Passerd using your Twitter password,">>,
             <<"and your Twitter username (">> \o d.twitter_user \o <<") as nickname">>>>)

all_set(d) ==
    wait_for(bye_twpass(bm(d, <<"OK, so you are all set">>)), RE_any, Fn("bye_twpass"), TRUE)

setup_password(d) ==
    LET d1 == say(d, <<<<"OK. Send your password as a message to the channel, and I will set it">>,
                       <<"Alternatively, I can generate a random password for you, just type 'generate' and I will do it">>,
                       <<"What will be your password?">>>>)
        d2 == wait_for(d1, RE_some, Fn("got_password"), TRUE)
    IN  wait_for(d2, RE_generate, Fn("gen_password"), TRUE)

bye_pwset(d) ==
    say(d, <<<<"Just reconnect to Passerd using your Passerd password: ">> \o d.password,
             <<"and your Twitter username (">> \o d.twitter_user \o <<") as nickname">>>>)

set_password(d, pw) ==
    LET d1 == [d EXCEPT !.trace = Append(@, [op |-> "set_user_password", pw |-> pw]),
                        !.password = pw]
        d2 == bm(d1, <<"Password set to: ">> \o pw)
    IN  wait_for(bye_pwset(d2), RE_any, Fn("bye_pwset"), TRUE)

got_password(d, msg) ==
    IF Len(msg) < 6
    THEN LET d1 == bm(d, <<"This is a short password! Are you sure you want to use it?">>)
             d2 == wait_for(d1, RE_any, Fn("setup_password"), TRUE)
         IN  wait_for(d2, RE_yes, [Fn("set_password") EXCEPT !.pw = msg], TRUE)
    ELSE set_password(d, msg)

\* sixteen characters drawn at random from letters and digits
gen_password(d) == set_password(d, <<"<16 random characters>">>)

\* func(msg, m) for the handlers a setup dialog registers
setup_func(d0, f, msg) ==
    LET d == [d0 EXCEPT !.trace = Append(@, [op |-> "func", func |-> f.name, msg |-> msg])]
    IN  CASE f.name = "begin" -> welcome(d)
          [] f.name = "start" -> begin_start(d)
          [] f.name = "no problem" -> bm(d, <<"no problem...">>)
          [] f.name = "got_pin" -> got_pin(d, f.consumer, pin_group(strip(msg)))
          [] f.name = "setup_password" -> setup_password(d)
          [] f.name = "all_set" -> all_set(d)
          [] f.name = "bye_twpass" -> bye_twpass(d)
          [] f.name = "got_password" -> got_password(d, msg)
          [] f.name = "gen_password" -> gen_password(d)
          [] f.name = "set_password" -> set_password(d, f.pw)
          [] f.name = "bye_pwset" -> bye_pwset(d)

\* Dialog.recv_message from pattern i on
RECURSIVE setup_recv_message(_, _, _)
setup_recv_message(d, msg, i) ==
    IF i > Len(d.patterns) THEN unknown_message(d, msg)
    ELSE LET p == d.patterns[i]
         IN  IF re_search(p.expr, IF p.filter THEN strip(msg) ELSE msg)
             THEN setup_func(d, p.func, msg)
             ELSE setup_recv_message(d, msg, i + 1)

\* what the user says on the channel
Utterances ==
    {Word_restart, Word_yes, Word_no, <<"1", "2", "3">>, <<"l", "o", "c", "a", "l">>,
     <<"2">>, Word_generate, <<"p", "w">>}

SetupBecomes(d) ==
    /\ Len(d.patterns) <= MaxWaits /\ Len(d.consumers) <= MaxConsumers
    /\ d.probes <= MaxProbes
    /\ \A c \in 1..Len(d.consumers) : d.consumers[c].verifying <= MaxProbes
    /\ patterns' = d.patterns /\ log_msgs' = d.msgs /\ trace' = d.trace
    /\ setup' = [consumers |-> d.consumers, probes |-> d.probes,
                 password |-> d.password, twitter_user |-> d.twitter_user]
    /\ UNCHANGED <<session_vars, cmd_dialog, registered>>

\* UserSetupChannel.__init__: any message begins the dialog
SetupChannel ==
    /\ patterns = <<>>
    /\ SetupBecomes(wait_for(NewUserDialog, RE_any, Fn("begin"), TRUE))

\* afterUserJoined
UserJoined ==
    /\ Len(patterns) = 1
    /\ SetupBecomes(welcome([NewUserDialog EXCEPT !.trace = <<[op |-> "begin"]>>]))

\* a message on the channel
Hear(msg) ==
    /\ patterns # <<>>
    /\ SetupBecomes(setup_recv_message(
           [NewUserDialog EXCEPT !.trace = <<[op |-> "recv_message", msg |-> msg,
                                              top |-> patterns[1].func.name,
                                              begun |-> Len(patterns) > 1]>>],
           msg, 1))

\* the request token of consumer c arrives: got_req_token
GotReqToken(c) ==
    /\ c \in 1..Len(setup.consumers) /\ setup.consumers[c].req
    /\ LET d1 == [NewUserDialog EXCEPT !.consumers[c].req = FALSE]
           d2 == show_progress(d1, <<"got request token.">>)
       IN  SetupBecomes(show_url(d2, c, <<"<authorize_url>">>))

\* the request for it fails: d.errback
ReqTokenFailed(c) ==
    /\ c \in 1..Len(setup.consumers) /\ setup.consumers[c].req
    /\ LET d1 == [NewUserDialog EXCEPT !.consumers[c].req = FALSE,
                                       !.consumers[c].called = TRUE]
       IN  SetupBecomes(error_get_token(d1, <<"timeout">>))

\* the access token arrives: got_access_token, then pin_worked
GotAccessToken(c) ==
    /\ c \in 1..Len(setup.consumers) /\ setup.consumers[c].verifying > 0
    /\ LET d1 == [NewUserDialog EXCEPT !.consumers[c].verifying = @ - 1,
                                       !.consumers[c].called = TRUE]
       IN  SetupBecomes(pin_worked(show_progress(d1, <<"got the access token">>)))

\* the verifier is refused: error, which fires the Deferred of
\* get_oauth_token if it has not fired, then pin_error
VerifierRefused(c) ==
    /\ c \in 1..Len(setup.consumers) /\ setup.consumers[c].verifying > 0
    /\ LET d1 == [NewUserDialog EXCEPT !.consumers[c].verifying = @ - 1,
                                       !.consumers[c].called = TRUE]
           d2 == IF setup.consumers[c].called THEN d1
                 ELSE error_get_token(d1, <<"401 Unauthorized">>)
       IN  SetupBecomes(pin_error(d2, <<"401 Unauthorized">>))

\* a token probe succeeds / fails
TokenWorks ==
    /\ setup.probes > 0
    /\ SetupBecomes(token_works([NewUserDialog EXCEPT !.probes = @ - 1], "alice"))

TokenFails ==
    /\ setup.probes > 0
    /\ SetupBecomes(token_error([NewUserDialog EXCEPT !.probes = @ - 1], <<"401 Unauthorized">>))

NextSetup ==
    \/ SetupChannel
    \/ UserJoined
    \/ \E msg \in Utterances : Hear(msg)
    \/ \E c \in 1..Len(setup.consumers) : GotReqToken(c)
    \/ \E c \in 1..Len(setup.consumers) : ReqTokenFailed(c)
    \/ \E c \in 1..Len(setup.consumers) : GotAccessToken(c)
    \/ \E c \in 1..Len(setup.consumers) : VerifierRefused(c)
    \/ TokenWorks
    \/ TokenFails

SpecSetup == Init /\ [][NextSetup]_vars

\* the handlers the message just heard was given to
SetupCalls == SelectSeq(trace, LAMBDA ev : ev.op = "func")

\* the dialog has started, and the user has just said `restart`
HeardRestart ==
    /\ Heard /\ strip(trace[1].msg) = Word_restart
    /\ trace[1].begun

\* the flow was rewound to the request for a token, and nothing else ran
Rewound ==
    /\ Len(SetupCalls) = 1 /\ SetupCalls[1].func = "start"
    /\ Len(SelectSeq(trace, LAMBDA ev : ev.op = "get_oauth_token")) = 1
    /\ Len(trace) = 3

\* C34 as stated: at every stage of the dialog after it has started, the
\* utterance `restart` rewinds the flow to the request-token step and
\* triggers no other handler.
CexC34 == HeardRestart => Rewound

\* the stages at which `restart` does restart: no pattern registered for a
\* password or for the farewell is on the dialog
AnythingGoes ==
    \E i \in 1..Len(patterns) :
        /\ patterns[i].expr \in {RE_any, RE_some}
        /\ patterns[i].func.name # "begin"

RestartBeforePasswords == HeardRestart /\ ~AnythingGoes => Rewound

\* `restart` was taken for the local password
RestartIsPassword ==
    /\ HeardRestart
    /\ \E k \in 1..Len(trace) : trace[k].op = "set_user_password" /\ trace[k].pw = Word_restart

\* `restart` restarted the flow while a PIN was awaited
RestartAtPin == HeardRestart /\ Rewound /\ trace[1].top = "got_pin"

\* ------------------------------------------------------------------------
\* The reply to NAMES: IrcChannel._sendNames (irc.py:225-237) on a
\* TwitterChannel (userModeChar, ircd.py:473-478)
\* ------------------------------------------------------------------------
\* members of a channel
MaxMembers == 32

RPL_NAMREPLY == "353"
RPL_ENDOFNAMES == "366"

\* the members of a channel: friends, and the user at place p (0: absent)
Friend(i) == [nick |-> "f" \o ToString(i), the_user |-> FALSE]
TheUser == [nick |-> "alice", the_user |-> TRUE]
Members(n, p) == [i \in 1..n |-> IF i = p THEN TheUser ELSE Friend(i)]

userModeChar(u) == IF u.the_user THEN "@" ELSE ""

\* ' '.join(namelist)
RECURSIVE join(_)
join(namelist) ==
    IF namelist = <<>> THEN <<>>
    ELSE IF Len(namelist) = 1 THEN <<Head(namelist)>>
    ELSE <<Head(namelist), " ">> \o join(Tail(namelist))

\* _sendNames.flush: returns the session; the caller empties namelist
flush(w, c, namelist) ==
    send_reply(w, RPL_NAMREPLY, <<"=", c, <<":">> \o join(namelist)>>)

\* the loop of _sendNames over the members from i on, then the last flush
RECURSIVE sendNamesFrom(_, _, _, _, _)
sendNamesFrom(w, c, members, i, namelist) ==
    IF i > Len(members) THEN flush(w, c, namelist)
    ELSE LET m == members[i]
             l == Append(namelist, userModeChar(m) \o m.nick)
         IN  IF Len(l) > 30
             THEN sendNamesFrom(flush(w, c, l), c, members, i + 1, <<>>)
             ELSE sendNamesFrom(w, c, members, i + 1, l)

_sendNames(w, c, members) ==
    send_reply(sendNamesFrom(w, c, members, 1, <<>>), RPL_ENDOFNAMES,
               <<c, <<":End of NAMES list">>>>)

SendNames(members) ==
    Becomes([_sendNames(World, TheChannel, members)
                EXCEPT !.trace = <<[op |-> "_sendNames", members |-> members]>>])

NextNames ==
    \E n \in 0..MaxMembers : \E p \in {0, 1, 2, n} : p <= n /\ SendNames(Members(n, p))

SpecNames == InitChan /\ [][NextNames]_vars

NamesSent == trace # <<>> /\ trace[1].op = "_sendNames"

\* the names a RPL_NAMREPLY carries: what a client reads between the spaces
NamesOf(reply) ==
    SelectSeq(Tail(reply.params[3]), LAMBDA x : x # " ")

\* the names of all replies, in the order sent
RECURSIVE AllNames(_)
AllNames(replies) ==
    IF replies = <<>> THEN <<>> ELSE NamesOf(Head(replies)) \o AllNames(Tail(replies))

NamReplies == SubSeq(sent, 1, Len(sent) - 1)

\* every member once, in list order, then one RPL_ENDOFNAMES
EveryMemberOnce ==
    /\ sent # <<>>
    /\ sent[Len(sent)].cmd = RPL_ENDOFNAMES
    /\ \A k \in 1..Len(NamReplies) : NamReplies[k].cmd = RPL_NAMREPLY
    /\ AllNames(NamReplies) =
          [i \in 1..Len(trace[1].members) |->
              userModeChar(trace[1].members[i]) \o trace[1].members[i].nick]

\* C35 as stated: the reply to NAMES is RPL_NAMREPLY messages of at most 30
\* nicks each, every member exactly once in list order, then exactly one
\* RPL_ENDOFNAMES.
CexC35 ==
    NamesSent =>
        /\ EveryMemberOnce
        /\ \A k \in 1..Len(NamReplies) : Len(NamesOf(NamReplies[k])) <= 30

\* what the code sends: 31 nicks in every RPL_NAMREPLY but the last, which
\* carries the rest and is empty when nothing is left
ChunksOf31 ==
    NamesSent =>
        /\ EveryMemberOnce
        /\ Len(NamReplies) = Len(trace[1].members) \div 31 + 1
        /\ \A k \in 1..(Len(NamReplies) - 1) : Len(NamesOf(NamReplies[k])) = 31

\* 31 members went out as one reply of 31 nicks and an empty one
EmptyLastReply ==
    /\ NamesSent /\ Len(trace[1].members) = 31
    /\ Len(NamReplies) = 2 /\ NamesOf(NamReplies[2]) = <<>>

\* ------------------------------------------------------------------------
\* The second pass over the friend list: fetch_all_friend_info
\* (ircd.py:390-430), one list_friends request per page
\* ------------------------------------------------------------------------
MAX_FRIEND_PAGE_REQS == 10

\* cursors the remote hands out: more pages, and the two ways of saying none
Cursors == {"1300", "0", ""}

\* the records a page can carry
ApiUsers ==
    {[id |-> 1, screen_name |-> "alice", name |-> "Al"],
     [id |-> 2, screen_name |-> "bob", name |-> "Bob"]}

request_cursor(w, cursor) ==
    [w EXCEPT !.backfill.reqs = Append(@, cursor), !.backfill.waiting = TRUE,
              !.trace = Append(@, [op |-> "list_friends", cursor |-> cursor])]

\* the users of unknown_users that still have no data
unk(w) == {u \in w.backfill.unknown_users : lookup_id(w, u) = <<>>}

end_page(w, next) ==
    IF unk(w) = {} THEN notice(w, "I know all friends of alice, now!")
    ELSE IF next = "" \/ next = "0"
    THEN notice(w, "something seems to be wrong: I fetched all pages and I still don't know all of your friends")
    ELSE IF Len(w.backfill.reqs) > MAX_FRIEND_PAGE_REQS
    THEN notice(w, "I already fetched %d pages of detailed friend info. I won't fetch more, sorry.")
    ELSE request_cursor(w, next)

fetch_all_friend_info(w, unknown_users) ==
    request_cursor([w EXCEPT !.backfill = [NoBackfill EXCEPT !.unknown_users = unknown_users]],
                   "-1")

RECURSIVE got_users(_, _)
got_users(w, page) ==
    IF page = <<>> THEN w
    ELSE got_users(got_api_user_info(w, Head(page)), Tail(page))

FetchAllFriendInfo(unknown_users) ==
    /\ backfill = NoBackfill
    /\ unknown_users # {}
    /\ \A u \in unknown_users : twitter_users[u] = <<>>
    /\ Becomes(fetch_all_friend_info(World, unknown_users))

\* a page arrives: got_user for each record, then end_page
GotFriendsPage(page, next) ==
    /\ backfill.waiting
    /\ LET w1 == [World EXCEPT !.backfill.waiting = FALSE,
                               !.trace = <<[op |-> "end_page", next |-> next,
                                            reqs |-> Len(backfill.reqs)]>>]
       IN  Becomes(end_page(got_users(w1, page), next))

\* the request fails: error
FriendsPageFailed ==
    /\ backfill.waiting
    /\ Becomes([World EXCEPT !.backfill.waiting = FALSE])

Pages == {<<>>} \cup {<<u>> : u \in ApiUsers}

NextBackfill ==
    \/ \E unknown_users \in SUBSET TwitterIds : FetchAllFriendInfo(unknown_users)
    \/ \E page \in Pages, next \in Cursors : GotFriendsPage(page, next)
    \/ FriendsPageFailed

SpecBackfill == InitSched /\ [][NextBackfill]_vars

\* C36 as stated: a pass issues at most MAX_FRIEND_PAGE_REQS page requests;
\* it stops after the first page at which all members are resolved, or the
\* cursor is final, or the page limit is reached.
CexC36 == Len(backfill.reqs) <= MAX_FRIEND_PAGE_REQS

PageEnded == trace # <<>> /\ trace[1].op = "end_page"

\* what the code does: a page is followed by a request exactly when a member
\* is still unknown, the cursor is not final and no more than
\* MAX_FRIEND_PAGE_REQS requests were made, so a pass makes one request more
\* than that; a pass with no page awaited makes no further request
OneMoreThanTheLimit ==
    /\ Len(backfill.reqs) <= MAX_FRIEND_PAGE_REQS + 1
    /\ PageEnded =>
          (backfill.waiting <=>
              /\ unk(World) # {}
              /\ trace[1].next \notin {"", "0"}
              /\ trace[1].reqs <= MAX_FRIEND_PAGE_REQS)
    /\ PageEnded /\ backfill.waiting => Len(backfill.reqs) = trace[1].reqs + 1
    /\ PageEnded /\ ~backfill.waiting => Len(backfill.reqs) = trace[1].reqs

\* the eleventh request of a pass is out
EleventhRequest == Len(backfill.reqs) = 11 /\ backfill.waiting

\* ------------------------------------------------------------------------
\* The command `login` (PasserdCommands.command_login, ircd.py:1075-1096) in
\* a session that is authenticated already: _do_auth runs again and
\* oauth_works replaces the scheduler
\* ------------------------------------------------------------------------
login_message(w, msg) == send_notice(w, passerd_bot, w.nick, msg)

\* command_login.error
login_error(w, e) ==
    LET w1 == login_message(w, <<"Error while authenticating: ", e>>)
    IN  IF e = "MissingOAuthRegistration" THEN redirect_to_new_user_setup(w1) ELSE w1

\* command_login.done
login_done(w, screen_name) ==
    welcome_user(login_message(w, <<"Welcome to Passerd, ", screen_name>>))

\* command_login with both arguments: _do_auth as far as the basic-auth
\* request; what _do_auth raises is answered by Dialog.error_reply
command_login(w, login) ==
    LET w1 == _do_auth(w, login)
    IN  IF w1.exc # ""
        THEN login_message([w1 EXCEPT !.exc = ""],
                           <<"An error has occurred. Sorry. -- ", w1.exc>>)
        ELSE [w1 EXCEPT !.do_auth.stage = "login basic"]

\* _do_auth.basic_auth_ok for the attempt of `login`
login_basic_auth_ok(w) ==
    LET screen_name == ScreenName(w.do_auth.username)
        w1 == get_user([w EXCEPT !.do_auth = NoAuth], TwitterId(screen_name),
                       screen_name, FALSE)
    IN  IF w1.ret = 0 THEN login_error(w1, "MissingOAuthRegistration")
        ELSE IF w1.users[w1.ret].oauth_token = None
             THEN login_error(w1, "MissingOAuthRegistration")
        ELSE [w1 EXCEPT !.do_auth = [stage |-> "login probe", username |-> screen_name,
                                     token |-> w1.users[w1.ret].oauth_token]]

\* /MSG PASSERD-BOT LOGIN <login> <password>; one attempt is in flight at a
\* time, and one scheduler with handles is replaced in a run
Login(login) ==
    /\ Connected /\ ~auth_inflight
    /\ retired = NoRetired
    /\ Becomes(command_login(World, login))

LoginBasicAuthOk ==
    /\ do_auth.stage = "login basic"
    /\ Becomes(login_basic_auth_ok(World))

LoginBasicAuthFail ==
    /\ do_auth.stage = "login basic"
    /\ Becomes(login_error([World EXCEPT !.do_auth = NoAuth], "401 Unauthorized"))

\* the token probe of the attempt succeeds: oauth_works, then done
LoginAuthOk ==
    /\ do_auth.stage = "login probe"
    /\ Becomes(login_done(oauth_works(probed(World), NameOf(do_auth.token)),
                          NameOf(do_auth.token)))

LoginProbeFail ==
    /\ do_auth.stage = "login probe"
    /\ Becomes(login_error([World EXCEPT !.do_auth = NoAuth], "MissingOAuthRegistration"))

NextLogin ==
    \/ Nick("alice") \/ User \/ Pass
    \/ BasicAuthOk
    \/ AuthOk
    \/ \E login \in {"alice", "al"} : Login(login)
    \/ LoginBasicAuthOk \/ LoginBasicAuthFail
    \/ LoginAuthOk \/ LoginProbeFail
    \/ \E i \in 1..Len(inflight) : Succeed(i)
    \/ Tick
    \/ Advance(REFRESH_DELAY)

SpecLogin == Init /\ [][NextLogin]_vars

\* ------------------------------------------------------------------------
\* Wakeups of the started feeds
\* ------------------------------------------------------------------------
\* a started feed has a refresh in flight or its handle in the queue of the
\* session's scheduler
Awaited(f) == loading[f] \/ f \in Range(pending_queue)

NoLostWakeup == \A f \in Feeds : updater[f] => Awaited(f)

\* C37 as stated: no wakeup is lost: a started feed has a refresh in flight
\* or its handle pending in the scheduler's queue at every moment, so that
\* with the scheduler running and every request completing it is refreshed
\* again and again.
CexC37 == NoLostWakeup

\* the handle of a started, idle feed waits in the queue of the scheduler
\* that was replaced, which has no shot left and ticks no more, while the
\* session's scheduler runs
Stranded(f) ==
    /\ updater[f] /\ ~loading[f] /\ running
    /\ f \in retired.updaters /\ f \in Range(retired.pending_queue)
    /\ retired.shots_available = 0

HomeStranded == Stranded("home")

\* a stranded feed stays stranded until it is stopped
StrandedForGood ==
    [][\A f \in Feeds : Stranded(f) => Stranded(f)' \/ ~updater'[f] \/ ~running']_vars

\* in every state a started feed has a refresh in flight or its handle in
\* the queue of the scheduler that made the handle
PendingSomewhere ==
    \A f \in Feeds :
        updater[f] => loading[f] \/ f \in Range(pending_queue) \cup Range(retired.pending_queue)

\* the tick that has just been, of the running scheduler, found no handle
TickedWithNoHandle == running /\ ticks /\ n_at_tick = 0 /\ since_tick = 0

\* every started feed's handle is registered with the session's scheduler
HandlesRegistered == \A f \in Feeds : updater[f] => f \in updaters

\* C38 as stated: every started feed's handle is registered with the
\* session's current scheduler at all times, also after a further successful
\* authentication has replaced the scheduler; the running scheduler never
\* ticks with zero registered handles while feeds are started.
CexC38 ==
    /\ HandlesRegistered
    /\ TickedWithNoHandle => \A f \in Feeds : ~updater[f]

\* after `login` the new scheduler ticks over no handle while three feeds
\* are started
EmptyTick ==
    /\ TickedWithNoHandle /\ updaters = {}
    /\ updater["home"] /\ updater["mentions"] /\ updater["dm"]

\* ------------------------------------------------------------------------
\* The token a session is bound to (data.py:161-178, ircd.py:1837-1896)
\* ------------------------------------------------------------------------
\* a connection over every store, the client giving the name "alice" or,
\* in capitals, the name "al" of account 2; meanwhile an account is paired in
\* #new-user-setup (set_user_token) under the name it carries
InitBind ==
    /\ InitCommon
    /\ callbacks = 0 /\ _watched_ids = <<>> /\ cmd_dialog = None
    /\ reactions = <<>>
    /\ api = FALSE /\ scheduler = FALSE /\ authenticated_user = FALSE
    /\ got_nick = FALSE /\ got_user = FALSE /\ password = FALSE /\ nick = "guest"
    /\ users \in InitialUsers

Typed == {"alice", "AL"}

NextBind ==
    \/ \E n \in Typed : Nick(n)
    \/ User \/ Pass
    \/ BasicAuthOk \/ BasicAuthFail
    \/ AuthOk
    \/ ProbeFail("401")
    \/ \E login \in Typed : Login(login)
    \/ LoginBasicAuthOk \/ LoginBasicAuthFail
    \/ LoginAuthOk \/ LoginProbeFail
    \/ \E id \in TwitterIds : SetUserToken(id, NameOf(id))

SpecBind == InitBind /\ [][NextBind]_vars

\* C39 as stated: a session verified by basic auth as remote user X gets an
\* API client signed with the token stored for remote id X only, never with
\* a token stored for a different remote id (a row matched by a reused
\* screen name).
CexC39 == "self.api: token of another account" \notin Range(reactions)

\* what the code does: the token probed for the user verified as X is the
\* token of the first row whose twitter_id is X or, when there is none, of
\* the first row whose twitter_login is X's screen name, and that row's
\* twitter_id becomes X
RowFound ==
    [][(do_auth.stage \in {"basic", "login basic"}
            /\ do_auth'.stage \in {"probe", "login probe"}) =>
          LET X == TwitterId(do_auth'.username)
              i == FirstUser(users, "twitter_id", X)
              j == FirstUser(users, "twitter_login", do_auth'.username)
          IN  IF i # 0 THEN do_auth'.token = users[i].oauth_token /\ users' = users
              ELSE /\ j # 0
                   /\ do_auth'.token = users[j].oauth_token
                   /\ users' = [users EXCEPT ![j].twitter_id = X] ]_vars

\* the session of the user verified as account 2 has the API client signed
\* with the token issued for account 1
ForeignToken ==
    /\ api /\ authenticated_user
    /\ "self.api: token of another account" \in Range(reactions)
    /\ \E i \in 1..Len(users) : users[i].twitter_id = 2 /\ users[i].oauth_token = 1

\* the session of a verified user has the client signed with that user's token
OwnToken ==
    /\ api /\ authenticated_user
    /\ "self.api: token of the verified account" \in Range(reactions)

\* ------------------------------------------------------------------------
\* wait_rate_limit and the pending tick (scheduler.py:105-154)
\* ------------------------------------------------------------------------
\* the DelayedCall of the next tick is with the reactor
TickPending == next_call # None /\ next_call \in Range(timers)

====
